---------------------------- MODULE Spec2Model ----------------------------
(***************************************************************************)
(* A model of github.com/eientei/cookiejarx: the RFC 6265 cookie jar       *)
(* (jar.go) and its in-memory storage engine (InMemoryStorage).            *)
(*                                                                         *)
(* Go strings that the code indexes, slices or concatenates (hosts,        *)
(* domains, paths, names, partition keys, identities) are sequences of     *)
(* one-character strings, so that the byte-level functions (HasDotSuffix,  *)
(* JarKey, DefaultPath, PathMatch, the identity format) are computed as    *)
(* the code computes them.  A Go index i is the TLA+ index i+1.            *)
(* Instants are integers (seconds); 0 is Go's zero time.Time.              *)
(***************************************************************************)
EXTENDS Integers, Sequences, FiniteSets, TLC

(***************************************************************************)
(* Bounds of the model.                                                    *)
(***************************************************************************)
\* nextSeqNum is not advanced past this value (uint64 in the code).
MaxSeq == 3
\* longest cookie list handed to one SetCookies call
MaxCookies == 2
\* longest entry list handed to one EntriesRestore call
MaxRestore == 2

(***************************************************************************)
(* Program constants.                                                      *)
(***************************************************************************)
\* endOfTime, jar.go:395: the expiry of session cookies (year 9999)
endOfTime == 9999

(***************************************************************************)
(* String literals used as inputs.                                         *)
(***************************************************************************)
h_www_example_com == <<"w","w","w",".","e","x","a","m","p","l","e",".","c","o","m">>
h_sub_example_com == <<"s","u","b",".","e","x","a","m","p","l","e",".","c","o","m">>
h_example_com == <<"e","x","a","m","p","l","e",".","c","o","m">>
h_foo_com == <<"f","o","o",".","c","o","m">>
h_bar_com == <<"b","a","r",".","c","o","m">>
h_com == <<"c","o","m">>
h_co_uk == <<"c","o",".","u","k">>
h_uk == <<"u","k">>
h_foo_co_uk == <<"f","o","o",".","c","o",".","u","k">>
h_bar_foo_co_uk == <<"b","a","r",".","f","o","o",".","c","o",".","u","k">>
h_ip_1_2_3_4 == <<"1",".","2",".","3",".","4">>
\* raw URL hosts that CanonicalHost has to normalise
h_ip6 == <<"[", ":", ":", "1", "]">>
h_ip6_port == <<"[", ":", ":", "1", "]", ":", "8", "0">>
h_notexample_com == <<"n","o","t","e","x","a","m","p","l","e",".","c","o","m">>
h_xample_com == <<"x","a","m","p","l","e",".","c","o","m">>
h_FOO_com_port == <<"F","O","O",".","c","o","m",":","8","0">>
h_foo_com_dot == <<"f","o","o",".","c","o","m",".">>
h_bad_bracket == <<"[","f","o","o",":","8","0">>
\* "NONASCII" stands for one non-ASCII character
h_nonascii == <<"f","NONASCII",".","c","o","m">>

\* Domain attributes
d_dot_example_com == <<".","e","x","a","m","p","l","e",".","c","o","m">>
d_EXAMPLE_com == <<"E","X","A","M","P","L","E",".","c","o","m">>
d_example_com_dot == <<"e","x","a","m","p","l","e",".","c","o","m",".">>
d_dot == <<".">>
d_dotdot_com == <<".",".","c","o","m">>
d_nonascii == <<"NONASCII",".","c","o","m">>

p_root == <<"/">>
p_a == <<"/","a">>
p_a_b == <<"/","a","/","b">>
p_a_slash == <<"/","a","/">>
p_ab == <<"/","a","b">>
p_empty == <<>>
p_rel == <<"a">>

n_c == <<"c">>
n_b_semi_c == <<"b", ";", "c">>
p_a_semi_b == <<"/", "a", ";", "b">>
n_x == <<"x">>
n_y == <<"y">>
n_z == <<"z">>

(***************************************************************************)
(* Go's strings package, on sequences of characters.                       *)
(***************************************************************************)
HasPrefix(s, prefix) ==
  Len(s) >= Len(prefix) /\ SubSeq(s, 1, Len(prefix)) = prefix

HasSuffix(s, suffix) ==
  Len(s) >= Len(suffix) /\ SubSeq(s, Len(s) - Len(suffix) + 1, Len(s)) = suffix

\* strings.Count(s, c) for a one-character c
Count(s, c) == Cardinality({i \in 1..Len(s) : s[i] = c})

\* strings.LastIndex(s, c) for a one-character c: a Go index, -1 if absent
LastIndex(s, c) ==
  LET hits == {i \in 1..Len(s) : s[i] = c}
  IN IF hits = {} THEN -1 ELSE (CHOOSE i \in hits : \A j \in hits : j <= i) - 1

\* strings.Index(s, c) for a one-character c: a Go index, -1 if absent
Index(s, c) ==
  LET hits == {i \in 1..Len(s) : s[i] = c}
  IN IF hits = {} THEN -1 ELSE (CHOOSE i \in hits : \A j \in hits : i <= j) - 1

\* the Go slice s[from:] (from is a Go index)
SliceFrom(s, from) == SubSeq(s, from + 1, Len(s))

\* the Go slice s[:to] (to is a Go index)
SliceTo(s, to) == SubSeq(s, 1, to)

(***************************************************************************)
(* The punycode package (github.com/eientei/cookiejarx/punycode) is not    *)
(* among the sources: ToASCII and ToLower follow the specification's       *)
(* description of the normalization collaborator.                          *)
(***************************************************************************)
UpperChars == <<"A","B","C","D","E","F","G","H","I","J","K","L","M",
                "N","O","P","Q","R","S","T","U","V","W","X","Y","Z">>
LowerChars == <<"a","b","c","d","e","f","g","h","i","j","k","l","m",
                "n","o","p","q","r","s","t","u","v","w","x","y","z">>

IsASCIIChar(c) == c # "NONASCII"

LowerChar(c) ==
  IF \E i \in 1..26 : UpperChars[i] = c
  THEN LowerChars[CHOOSE i \in 1..26 : UpperChars[i] = c]
  ELSE c

\* punycode.ToLower(s) -> (lowered, wasPureASCII)
ToLower(s) ==
  [lower |-> [i \in 1..Len(s) |-> LowerChar(s[i])],
   isASCII |-> \A i \in 1..Len(s) : IsASCIIChar(s[i])]

\* punycode.ToASCII(host) -> (ascii, error): a pure-ASCII host is its own
\* ASCII form; the model's only non-ASCII host is a malformed one.
ToASCII(s) ==
  IF \A i \in 1..Len(s) : IsASCIIChar(s[i])
  THEN [ascii |-> s, err |-> FALSE]
  ELSE [ascii |-> <<>>, err |-> TRUE]

(***************************************************************************)
(* Host/Domain normalizer (jar.go).                                        *)
(***************************************************************************)
Digits == {"0","1","2","3","4","5","6","7","8","9"}

HexDigits == Digits \cup {"a","b","c","d","e","f"}

\* net.ParseIP accepts an IPv6 address written without brackets; the forms
\* here are hexadecimal groups separated by colons, "::" included
IsIPv6(host) ==
  /\ Len(host) >= 2
  /\ \A i \in 1..Len(host) : host[i] \in HexDigits \cup {":"}
  /\ Count(host, ":") \in 2..7

\* net.ParseIP accepts the dotted-quad IPv4 form
IsIPv4(host) ==
  /\ Len(host) > 0
  /\ \A i \in 1..Len(host) : host[i] \in Digits \cup {"."}
  /\ Count(host, ".") = 3
  /\ host[1] # "." /\ host[Len(host)] # "."
  /\ \A i \in 1..(Len(host) - 1) : ~(host[i] = "." /\ host[i+1] = ".")

\* IsIP reports whether host is an IP address: net.ParseIP(host) != nil
IsIP(host) == IsIPv4(host) \/ IsIPv6(host)

\* HasPort reports whether host contains a port number.
HasPort(host) ==
  LET colons == Count(host, ":")
  IN IF colons = 0 THEN FALSE
     ELSE IF colons = 1 THEN TRUE
     ELSE host[1] = "[" /\ \E i \in 1..(Len(host) - 1) : host[i] = "]" /\ host[i+1] = ":"

\* net.SplitHostPort, the host part: host:port and [host]:port
SplitHostPort(hostport) ==
  LET i == LastIndex(hostport, ":")
      close == Index(hostport, "]")
  IN IF hostport[1] = "["
     THEN IF close < 0 \/ close + 1 # i
          THEN [host |-> <<>>, err |-> TRUE]
          ELSE [host |-> SubSeq(hostport, 2, close), err |-> FALSE]
     ELSE [host |-> SliceTo(hostport, i), err |-> FALSE]

\* CanonicalHost strips port from host if present and returns the
\* canonicalized host name.
CanonicalHost(rawhost) ==
  LET split == IF HasPort(rawhost) THEN SplitHostPort(rawhost)
               ELSE [host |-> rawhost, err |-> FALSE]
      host == IF HasSuffix(split.host, <<".">>)
              THEN SliceTo(split.host, Len(split.host) - 1)
              ELSE split.host
      encoded == ToASCII(host)
  IN IF split.err \/ encoded.err
     THEN [host |-> <<>>, err |-> TRUE]
     ELSE [host |-> ToLower(encoded.ascii).lower, err |-> FALSE]

\* HasDotSuffix reports whether s ends in "."+suffix.
HasDotSuffix(s, suffix) ==
  /\ Len(s) > Len(suffix)
  /\ s[Len(s) - Len(suffix)] = "."
  /\ SliceFrom(s, Len(s) - Len(suffix)) = suffix

(***************************************************************************)
(* Public suffix lists: Options.PublicSuffixList.                          *)
(*   "nil"   no list (the two-label heuristic is used)                     *)
(*   "dummy" the test double dummypsl: every domain is its own suffix      *)
(*   "empty" the list that always answers ""                               *)
(*   "table" a list knowing com, uk and co.uk                              *)
(* and, for the key deriver only,                                          *)
(*   "buggy" a broken list answering "com" for every domain                *)
(***************************************************************************)
PSLists == {"nil", "dummy", "empty", "table"}

TableSuffixes == {h_com, h_uk, h_co_uk}

\* the longest listed suffix of domain, else its last label
TablePublicSuffix(domain) ==
  LET match == {s \in TableSuffixes : s = domain \/ HasDotSuffix(domain, s)}
  IN IF match # {}
     THEN CHOOSE s \in match : \A t \in match : Len(t) <= Len(s)
     ELSE SliceFrom(domain, LastIndex(domain, ".") + 1)

\* dummypsl.PublicSuffix
DummyPublicSuffix(domain) == domain

\* psList.PublicSuffix(domain), psList non-nil
PublicSuffix(psList, domain) ==
  CASE psList = "dummy" -> DummyPublicSuffix(domain)
    [] psList = "empty" -> <<>>
    [] psList = "table" -> TablePublicSuffix(domain)
    [] psList = "buggy" -> h_com

(***************************************************************************)
(* Key deriver.                                                            *)
(***************************************************************************)
\* the common tail of JarKey: host[prevDot+1:]
JarKeyTail(host, i) ==
  LET prevDot == LastIndex(SliceTo(host, i - 1), ".")
  IN SliceFrom(host, prevDot + 1)

\* a key deriver that takes the last two labels whatever the list says
JarKey_TwoLabels(host, psl) ==
  IF IsIP(host) THEN host
  ELSE LET i == LastIndex(host, ".")
       IN IF i <= 0 THEN host ELSE JarKeyTail(host, i)

\* a key deriver that puts every host into one partition
JarKey_OnePartition(host, psl) == <<>>

\* JarKey returns the key to use for a jar.
JarKey(host, psl) ==
  IF IsIP(host) THEN host
  ELSE IF psl = "nil"
       THEN LET i == LastIndex(host, ".")
            IN IF i <= 0 THEN host ELSE JarKeyTail(host, i)
       ELSE LET suffix == PublicSuffix(psl, host)
                i == Len(host) - Len(suffix)
            IN IF suffix = host THEN host
               ELSE IF i <= 0 \/ host[i] # "." THEN host
               ELSE JarKeyTail(host, i)

\* a default path that keeps the last "/"
DefaultPath_Inclusive(path) ==
  IF Len(path) = 0 \/ path[1] # "/" THEN <<"/">>
  ELSE LET i == LastIndex(path, "/")
       IN IF i = 0 THEN <<"/">> ELSE SliceTo(path, i + 1)

\* DefaultPath returns the directory part of an URL's path.
DefaultPath(path) ==
  IF Len(path) = 0 \/ path[1] # "/" THEN <<"/">>
  ELSE LET i == LastIndex(path, "/")
       IN IF i = 0 THEN <<"/">> ELSE SliceTo(path, i)


(***************************************************************************)
(* Entry validator/builder.                                                *)
(***************************************************************************)
\* the zero value of type Entry
ZeroEntry ==
  [Name |-> <<>>, Value |-> "", Domain |-> <<>>, Path |-> <<>>, SameSite |-> "",
   Key |-> <<>>, ID |-> <<>>, Secure |-> FALSE, HttpOnly |-> FALSE,
   Persistent |-> FALSE, HostOnly |-> FALSE,
   Expires |-> 0, Creation |-> 0, LastAccess |-> 0]

\* a validator that lets a public suffix through as a domain cookie when
\* the host is that suffix
DomainAndType_NoHostOnly(host, domainAttr, psList) ==
  LET reject(e) == [domain |-> <<>>, hostOnly |-> FALSE, err |-> e]
      stripped == IF domainAttr # <<>> /\ domainAttr[1] = "."
                  THEN SliceFrom(domainAttr, 1) ELSE domainAttr
      low == ToLower(stripped)
      domain == low.lower
  IN IF domainAttr = <<>> THEN [domain |-> host, hostOnly |-> TRUE, err |-> ""]
     ELSE IF IsIP(host) THEN reject("errNoHostname")
     ELSE IF Len(stripped) = 0 \/ stripped[1] = "." THEN reject("errMalformedDomain")
     ELSE IF ~low.isASCII THEN reject("errMalformedDomain")
     ELSE IF domain[Len(domain)] = "." THEN reject("errMalformedDomain")
     ELSE IF /\ psList # "nil"
             /\ PublicSuffix(psList, domain) # <<>>
             /\ ~HasDotSuffix(domain, PublicSuffix(psList, domain))
             /\ host # domain
          THEN reject("errIllegalDomain")
     ELSE IF host # domain /\ ~HasDotSuffix(host, domain) THEN reject("errIllegalDomain")
     ELSE [domain |-> domain, hostOnly |-> FALSE, err |-> ""]

\* DomainAndType determines the cookie's domain and hostOnly attribute.
\* err is "" (nil), "errNoHostname", "errMalformedDomain" or "errIllegalDomain".
DomainAndType(host, domainAttr, psList) ==
  LET reject(e) == [domain |-> <<>>, hostOnly |-> FALSE, err |-> e]
      stripped == IF domainAttr # <<>> /\ domainAttr[1] = "."
                  THEN SliceFrom(domainAttr, 1) ELSE domainAttr
      low == ToLower(stripped)
      domain == low.lower
  IN IF domainAttr = <<>> THEN [domain |-> host, hostOnly |-> TRUE, err |-> ""]
     ELSE IF IsIP(host) THEN reject("errNoHostname")
     ELSE IF Len(stripped) = 0 \/ stripped[1] = "." THEN reject("errMalformedDomain")
     ELSE IF ~low.isASCII THEN reject("errMalformedDomain")
     ELSE IF domain[Len(domain)] = "." THEN reject("errMalformedDomain")
     ELSE IF /\ psList # "nil"
             /\ PublicSuffix(psList, domain) # <<>>
             /\ ~HasDotSuffix(domain, PublicSuffix(psList, domain))
          THEN IF host = domain
               THEN [domain |-> host, hostOnly |-> TRUE, err |-> ""]
               ELSE reject("errIllegalDomain")
     ELSE IF host # domain /\ ~HasDotSuffix(host, domain) THEN reject("errIllegalDomain")
     ELSE [domain |-> domain, hostOnly |-> FALSE, err |-> ""]

\* fmt.Sprintf("%s;%s;%s", e.Domain, e.Path, e.Name), the deferred assignment
\* of e.ID in NewEntry
EntryID(domain, path, name) == domain \o <<";">> \o path \o <<";">> \o name

\* the switch on c.SameSite in NewEntry
SameSiteString(mode) ==
  CASE mode = "SameSiteDefaultMode" -> "SameSite"
    [] mode = "SameSiteStrictMode" -> "SameSite=Strict"
    [] mode = "SameSiteLaxMode" -> "SameSite=Lax"
    [] OTHER -> ""

\* a builder that sets e.ID only where it returns a complete entry
NewEntry_NoIDOnRemove(c, now, defPath, host, key, psList) ==
  LET path == IF c.Path = <<>> \/ c.Path[1] # "/" THEN defPath ELSE c.Path
      dt == DomainAndType(host, c.Domain, psList)
      e0 == [ZeroEntry EXCEPT !.Name = c.Name, !.Key = key, !.Path = path,
                              !.Domain = dt.domain, !.HostOnly = dt.hostOnly]
      filled(expires, persistent) ==
        [e0 EXCEPT !.Expires = expires, !.Persistent = persistent,
                   !.Creation = now, !.Value = c.Value, !.Secure = c.Secure,
                   !.HttpOnly = c.HttpOnly, !.SameSite = SameSiteString(c.SameSite),
                   !.ID = EntryID(dt.domain, path, c.Name)]
  IN IF dt.err # "" THEN [e |-> e0, remove |-> FALSE, err |-> dt.err]
     ELSE IF c.MaxAge < 0 THEN [e |-> e0, remove |-> TRUE, err |-> ""]
     ELSE IF c.MaxAge > 0
          THEN [e |-> filled(now + c.MaxAge, TRUE), remove |-> FALSE, err |-> ""]
     ELSE IF c.Expires = 0
          THEN [e |-> filled(endOfTime, FALSE), remove |-> FALSE, err |-> ""]
     ELSE IF ~(c.Expires > now) THEN [e |-> e0, remove |-> TRUE, err |-> ""]
     ELSE [e |-> filled(c.Expires, TRUE), remove |-> FALSE, err |-> ""]

\* a builder in which Expires takes precedence over MaxAge
NewEntry_ExpiresFirst(c, now, defPath, host, key, psList) ==
  LET path == IF c.Path = <<>> \/ c.Path[1] # "/" THEN defPath ELSE c.Path
      dt == DomainAndType(host, c.Domain, psList)
      e0 == [ZeroEntry EXCEPT !.Name = c.Name, !.Key = key, !.Path = path,
                              !.Domain = dt.domain, !.HostOnly = dt.hostOnly,
                              !.ID = EntryID(dt.domain, path, c.Name)]
      filled(expires, persistent) ==
        [e0 EXCEPT !.Expires = expires, !.Persistent = persistent,
                   !.Creation = now, !.Value = c.Value, !.Secure = c.Secure,
                   !.HttpOnly = c.HttpOnly, !.SameSite = SameSiteString(c.SameSite)]
  IN IF dt.err # "" THEN [e |-> e0, remove |-> FALSE, err |-> dt.err]
     ELSE IF c.Expires # 0 /\ ~(c.Expires > now) THEN [e |-> e0, remove |-> TRUE, err |-> ""]
     ELSE IF c.Expires # 0
          THEN [e |-> filled(c.Expires, TRUE), remove |-> FALSE, err |-> ""]
     ELSE IF c.MaxAge < 0 THEN [e |-> e0, remove |-> TRUE, err |-> ""]
     ELSE IF c.MaxAge > 0
          THEN [e |-> filled(now + c.MaxAge, TRUE), remove |-> FALSE, err |-> ""]
     ELSE [e |-> filled(endOfTime, FALSE), remove |-> FALSE, err |-> ""]

\* NewEntry creates an Entry from a http.Cookie c: (e, remove, err).
NewEntry(c, now, defPath, host, key, psList) ==
  LET path == IF c.Path = <<>> \/ c.Path[1] # "/" THEN defPath ELSE c.Path
      dt == DomainAndType(host, c.Domain, psList)
      e0 == [ZeroEntry EXCEPT !.Name = c.Name, !.Key = key, !.Path = path,
                              !.Domain = dt.domain, !.HostOnly = dt.hostOnly,
                              !.ID = EntryID(dt.domain, path, c.Name)]
      filled(expires, persistent) ==
        [e0 EXCEPT !.Expires = expires, !.Persistent = persistent,
                   !.Creation = now, !.Value = c.Value, !.Secure = c.Secure,
                   !.HttpOnly = c.HttpOnly, !.SameSite = SameSiteString(c.SameSite)]
  IN IF dt.err # "" THEN [e |-> e0, remove |-> FALSE, err |-> dt.err]
     ELSE IF c.MaxAge < 0 THEN [e |-> e0, remove |-> TRUE, err |-> ""]
     ELSE IF c.MaxAge > 0
          THEN [e |-> filled(now + c.MaxAge, TRUE), remove |-> FALSE, err |-> ""]
     ELSE IF c.Expires = 0
          THEN [e |-> filled(endOfTime, FALSE), remove |-> FALSE, err |-> ""]
     ELSE IF ~(c.Expires > now) THEN [e |-> e0, remove |-> TRUE, err |-> ""]
     ELSE [e |-> filled(c.Expires, TRUE), remove |-> FALSE, err |-> ""]

(***************************************************************************)
(* Matching predicates.                                                    *)
(***************************************************************************)
\* a domain-match that lets host-only records match subdomains
DomainMatch_NoHostOnly(e, host) ==
  IF e.Domain = host THEN TRUE
  ELSE HasDotSuffix(host, e.Domain)

\* DomainMatch implements "domain-match" of RFC 6265 section 5.1.3.
DomainMatch(e, host) ==
  IF e.Domain = host THEN TRUE
  ELSE ~e.HostOnly /\ HasDotSuffix(host, e.Domain)

\* PathMatch implements "path-match" according to RFC 6265 section 5.1.4.
PathMatch(e, requestPath) ==
  IF requestPath = e.Path THEN TRUE
  ELSE IF HasPrefix(requestPath, e.Path)
       THEN \/ e.Path[Len(e.Path)] = "/"
            \/ requestPath[Len(e.Path) + 1] = "/"
       ELSE FALSE

\* ShouldSend determines whether e's cookie qualifies to be included in a
\* request to host/path.
ShouldSend(e, https, host, path) ==
  DomainMatch(e, host) /\ PathMatch(e, path) /\ (https \/ ~e.Secure)

(***************************************************************************)
(* Storage engine: InMemoryStorage.                                        *)
(* A store value is [entries, nextSeqNum]; entries maps a partition key to *)
(* a map from identity to inMemoryEntry = [Entry, seqNum].  The *Entry     *)
(* pointers of the code are modelled by the value they point to.           *)
(***************************************************************************)
\* an empty Go map
EmptyMap == <<>>

\* m[k] = v
MapPut(m, k, v) == [x \in (DOMAIN m) \cup {k} |-> IF x = k THEN v ELSE m[x]]

\* delete(m, k)
MapDelete(m, k) == [x \in (DOMAIN m) \ {k} |-> m[x]]

\* NewInMemoryStorage returns new InMemoryStorage instance
NewInMemoryStorage == [entries |-> EmptyMap, nextSeqNum |-> 0]

\* s.entries[key]: the submap, or the nil map when the key is absent
Submap(st, key) == IF key \in DOMAIN st.entries THEN st.entries[key] ELSE EmptyMap

\* a save that overwrites without copying the old creation time forward
saveEntry_NoCopy(st, entry) ==
  LET submap == Submap(st, entry.Key)
      id == entry.ID
      e == IF id \in DOMAIN submap
           THEN [Entry |-> entry, seqNum |-> submap[id].seqNum]
           ELSE [Entry |-> entry, seqNum |-> st.nextSeqNum]
  IN [entries |-> MapPut(st.entries, entry.Key, MapPut(submap, id, e)),
      nextSeqNum |-> IF id \in DOMAIN submap THEN st.nextSeqNum
                     ELSE st.nextSeqNum + 1]

\* saveEntry, the unlocked helper of SaveEntry and EntriesRestore
saveEntry(st, entry) ==
  LET submap == Submap(st, entry.Key)
      id == entry.ID
      e == IF id \in DOMAIN submap
           THEN [Entry |-> [entry EXCEPT !.Creation = submap[id].Entry.Creation],
                 seqNum |-> submap[id].seqNum]
           ELSE [Entry |-> entry, seqNum |-> st.nextSeqNum]
  IN [entries |-> MapPut(st.entries, entry.Key, MapPut(submap, id, e)),
      nextSeqNum |-> IF id \in DOMAIN submap THEN st.nextSeqNum
                     ELSE st.nextSeqNum + 1]

\* a remove that keeps the partition it emptied
removeEntry_KeepPartition(st, key, id) ==
  IF key \in DOMAIN st.entries
  THEN [st EXCEPT !.entries = MapPut(st.entries, key, MapDelete(st.entries[key], id))]
  ELSE st

\* the body of RemoveEntry
removeEntry(st, key, id) ==
  LET present == key \in DOMAIN st.entries
      modified == present /\ id \in DOMAIN st.entries[key]
      submap == IF modified THEN MapDelete(st.entries[key], id) ELSE Submap(st, key)
  IN [st EXCEPT !.entries =
        IF modified /\ Cardinality(DOMAIN submap) = 0 THEN MapDelete(st.entries, key)
        ELSE IF modified THEN MapPut(st.entries, key, submap)
        ELSE st.entries]

\* a sweep that compares with Before instead of !After
Expired_Before(e, now) == e.Persistent /\ e.Expires < now

\* the sweep condition of Entries: e.Persistent && !e.Expires.After(now)
Expired(e, now) == e.Persistent /\ ~(e.Expires > now)

\* a less function without the sequence-number tie-break
Less_NoSeqNum(a, b) ==
  IF Len(a.Entry.Path) # Len(b.Entry.Path) THEN Len(a.Entry.Path) > Len(b.Entry.Path)
  ELSE a.Entry.Creation < b.Entry.Creation

\* the less function handed to sort.Slice in Entries
Less(a, b) ==
  IF Len(a.Entry.Path) # Len(b.Entry.Path) THEN Len(a.Entry.Path) > Len(b.Entry.Path)
  ELSE IF a.Entry.Creation # b.Entry.Creation THEN a.Entry.Creation < b.Entry.Creation
  ELSE a.seqNum < b.seqNum

\* insert x into the sorted sequence s, after the elements not greater
RECURSIVE SortInsert(_, _)
SortInsert(s, x) ==
  IF s = <<>> THEN <<x>>
  ELSE IF Less(x, Head(s)) THEN <<x>> \o s
  ELSE <<Head(s)>> \o SortInsert(Tail(s), x)

\* sort.Slice(selected, less): elements that less does not order keep an
\* order that depends on the order they were selected in
RECURSIVE SortSlice(_)
SortSlice(s) ==
  IF s = <<>> THEN <<>>
  ELSE SortInsert(SortSlice(SubSeq(s, 1, Len(s) - 1)), s[Len(s)])

\* a range loop that touches every record it does not sweep
RECURSIVE EntriesLoop_TouchAll(_, _, _, _, _, _)
EntriesLoop_TouchAll(acc, order, https, host, path, now) ==
  IF order = <<>> THEN acc
  ELSE LET id == Head(order)
           e == acc.submap[id]
           touched == [e EXCEPT !.Entry.LastAccess = now]
           next ==
             IF Expired(e.Entry, now)
             THEN [acc EXCEPT !.submap = MapDelete(acc.submap, id), !.modified = TRUE]
             ELSE [submap |-> MapPut(acc.submap, id, touched),
                   selected |-> IF ShouldSend(e.Entry, https, host, path)
                                THEN Append(acc.selected, touched) ELSE acc.selected,
                   modified |-> TRUE]
       IN EntriesLoop_TouchAll(next, Tail(order), https, host, path, now)

\* the range loop of Entries over submap, visiting the identities in the
\* order `order` (Go's map iteration order): [submap, selected, modified]
RECURSIVE EntriesLoop(_, _, _, _, _, _)
EntriesLoop(acc, order, https, host, path, now) ==
  IF order = <<>> THEN acc
  ELSE LET id == Head(order)
           e == acc.submap[id]
           touched == [e EXCEPT !.Entry.LastAccess = now]
           next ==
             IF Expired(e.Entry, now)
             THEN [acc EXCEPT !.submap = MapDelete(acc.submap, id), !.modified = TRUE]
             ELSE IF ~ShouldSend(e.Entry, https, host, path) THEN acc
             ELSE [submap |-> MapPut(acc.submap, id, touched),
                   selected |-> Append(acc.selected, touched),
                   modified |-> TRUE]
       IN EntriesLoop(next, Tail(order), https, host, path, now)

\* the body of Entries: [st, entries], entries the returned []*Entry
entriesQuery(st, https, host, path, key, now, order) ==
  IF key \notin DOMAIN st.entries THEN [st |-> st, entries |-> <<>>]
  ELSE LET loop == EntriesLoop([submap |-> st.entries[key], selected |-> <<>>,
                                modified |-> FALSE],
                               order, https, host, path, now)
           after == IF ~loop.modified THEN st.entries
                    ELSE IF Cardinality(DOMAIN loop.submap) = 0
                         THEN MapDelete(st.entries, key)
                         ELSE MapPut(st.entries, key, loop.submap)
           sorted == SortSlice(loop.selected)
       IN [st |-> [st EXCEPT !.entries = after],
           entries |-> [i \in 1..Len(sorted) |-> sorted[i].Entry]]

\* the orders in which a range loop can visit the keys of map m
RangeOrders(m) ==
  {o \in [1..Cardinality(DOMAIN m) -> DOMAIN m] :
     \A i, j \in 1..Cardinality(DOMAIN m) : i # j => o[i] # o[j]}

\* the body of EntriesDump, visiting the partitions in the order `keys` and
\* each partition's records in the order orders[key]
RECURSIVE entriesDump(_, _, _)
entriesDump(st, keys, orders) ==
  IF keys = <<>> THEN <<>>
  ELSE LET k == Head(keys)
       IN [i \in 1..Len(orders[k]) |-> st.entries[k][orders[k][i]].Entry]
          \o entriesDump(st, Tail(keys), orders)

\* the body of EntriesRestore
RECURSIVE entriesRestore(_, _)
entriesRestore(st, list) ==
  IF list = <<>> THEN st
  ELSE entriesRestore(saveEntry(st, Head(list)), Tail(list))

\* the body of EntriesClear
entriesClear(st) == [st EXCEPT !.entries = EmptyMap]

(***************************************************************************)
(* Jar facade.                                                             *)
(***************************************************************************)
\* the partition a request to URL u is answered from
URLKey(u, psl) == JarKey(CanonicalHost(u.Host).host, psl)

\* cookies is like Cookies but takes the current time as a parameter:
\* [st, cookies]; order is the iteration order of the partition's map.
cookies(st, psl, u, now, order) ==
  LET canon == CanonicalHost(u.Host)
      host == canon.host
      key == JarKey(host, psl)
      https == (u.Scheme = "https")
      path == IF u.Path = <<>> THEN <<"/">> ELSE u.Path
      q == entriesQuery(st, https, host, path, key, now, order)
  IN IF u.Scheme # "http" /\ u.Scheme # "https" THEN [st |-> st, cookies |-> <<>>]
     ELSE IF canon.err THEN [st |-> st, cookies |-> <<>>]
     ELSE [st |-> q.st,
           cookies |-> [i \in 1..Len(q.entries) |->
                          [Name |-> q.entries[i].Name, Value |-> q.entries[i].Value]]]

\* a loop that gives up at the first cookie NewEntry rejects
RECURSIVE setCookiesLoop_Abort(_, _, _, _, _, _, _)
setCookiesLoop_Abort(acc, cs, now, defPath, host, key, psl) ==
  IF cs = <<>> THEN acc
  ELSE LET r == NewEntry(Head(cs), now, defPath, host, key, psl)
           st == IF r.remove THEN removeEntry(acc.st, key, r.e.ID)
                 ELSE saveEntry(acc.st, [r.e EXCEPT !.LastAccess = now])
       IN IF r.err # "" THEN [st |-> acc.st, built |-> Append(acc.built, r)]
          ELSE setCookiesLoop_Abort([st |-> st, built |-> Append(acc.built, r)],
                                    Tail(cs), now, defPath, host, key, psl)

\* the range loop of setCookies over the cookies: [st, built], built the
\* (e, remove, err) that NewEntry returned for each cookie visited
RECURSIVE setCookiesLoop(_, _, _, _, _, _, _)
setCookiesLoop(acc, cs, now, defPath, host, key, psl) ==
  IF cs = <<>> THEN acc
  ELSE LET r == NewEntry(Head(cs), now, defPath, host, key, psl)
           st == IF r.err # "" THEN acc.st
                 ELSE IF r.remove THEN removeEntry(acc.st, key, r.e.ID)
                 ELSE saveEntry(acc.st, [r.e EXCEPT !.LastAccess = now])
       IN setCookiesLoop([st |-> st, built |-> Append(acc.built, r)],
                         Tail(cs), now, defPath, host, key, psl)

\* setCookies is like SetCookies but takes the current time as parameter.
setCookies(st, psl, u, cs, now) ==
  LET canon == CanonicalHost(u.Host)
      host == canon.host
      key == JarKey(host, psl)
      defPath == DefaultPath(u.Path)
  IN IF Len(cs) = 0 THEN [st |-> st, built |-> <<>>]
     ELSE IF u.Scheme # "http" /\ u.Scheme # "https" THEN [st |-> st, built |-> <<>>]
     ELSE IF canon.err THEN [st |-> st, built |-> <<>>]
     ELSE setCookiesLoop([st |-> st, built |-> <<>>], cs, now, defPath, host, key, psl)

(***************************************************************************)
(* State.                                                                  *)
(***************************************************************************)
VARIABLES
  entries,      \* InMemoryStorage.entries
  nextSeqNum,   \* InMemoryStorage.nextSeqNum
  psList,       \* Jar.psList, fixed by New(Options)
  last,         \* the call that has just returned: its name, its arguments, the
                \* store it found (pre), what it returned; [op |-> "none"] once
                \* the caller has dropped it
  mu,           \* InMemoryStorage.mu: the thread holding it, "" when unlocked
  thread,       \* per thread: where it is in the call it is making (pc), the
                \* call, its locals, and what it returns
  shadow,       \* the store a single caller would have, making the calls one
                \* after the other in the order they acquired mu
  twin          \* the store of a second jar, for the comparison of two runs

vars == <<entries, nextSeqNum, psList, last, mu, thread, shadow, twin>>

\* the threads calling the store
Threads == {"t1", "t2"}

\* a thread that is not inside a call
NotCalling == [pc |-> "idle"]

\* one caller: nobody contends for mu
SingleCaller ==
  /\ mu = ""
  /\ thread = [t \in Threads |-> NotCalling]
  /\ shadow = [entries |-> <<>>, nextSeqNum |-> 0]
  /\ twin = [entries |-> <<>>, nextSeqNum |-> 0]

\* the store as a value
Store == [entries |-> entries, nextSeqNum |-> nextSeqNum]

\* the store becomes st; a call that would push nextSeqNum past the bound
\* of the model is not made
StoreBecomes(st) ==
  /\ st.nextSeqNum <= MaxSeq
  /\ entries' = st.entries
  /\ nextSeqNum' = st.nextSeqNum

\* no call's record is pending: the next call can be made
Idle == last.op = "none"

\* the caller drops the record of the call that returned
Return ==
  /\ ~Idle
  /\ last' = [op |-> "none"]
  /\ UNCHANGED <<entries, nextSeqNum, psList, mu, thread, shadow, twin>>

\* all sequences over S of length at most n
SeqsUpTo(S, n) == UNION {[1..k -> S] : k \in 0..n}

(***************************************************************************)
(* Calls of the storage engine by a single caller.  Each is the whole      *)
(* method: Lock, the body, the deferred Unlock.                            *)
(***************************************************************************)
SaveEntry(E) ==
  /\ Idle
  /\ \E e \in E :
       /\ \E st \in {saveEntry(Store, e)} : StoreBecomes(st)
       /\ last' = [op |-> "SaveEntry", pre |-> Store, entry |-> e]
       /\ UNCHANGED <<psList, mu, thread, shadow, twin>>

RemoveEntry(Keys, IDs) ==
  /\ Idle
  /\ \E key \in Keys, id \in IDs :
       /\ \E st \in {removeEntry(Store, key, id)} : StoreBecomes(st)
       /\ last' = [op |-> "RemoveEntry", pre |-> Store, key |-> key, id |-> id]
       /\ UNCHANGED <<psList, mu, thread, shadow, twin>>

Entries(Requests, Keys, Times) ==
  /\ Idle
  /\ \E rq \in Requests, key \in Keys, now \in Times :
       \E order \in RangeOrders(Submap(Store, key)) :
         \E q \in {entriesQuery(Store, rq.https, rq.host, rq.path, key, now, order)} :
            /\ StoreBecomes(q.st)
            /\ last' = [op |-> "Entries", pre |-> Store, https |-> rq.https, host |-> rq.host,
                        path |-> rq.path, key |-> key, now |-> now,
                        entries |-> q.entries]
            /\ UNCHANGED <<psList, mu, thread, shadow, twin>>

EntriesDump ==
  /\ Idle
  /\ \E keys \in RangeOrders(entries) :
       \E orders \in [DOMAIN entries ->
                        UNION {RangeOrders(entries[k]) : k \in DOMAIN entries}] :
         /\ \A k \in DOMAIN entries : orders[k] \in RangeOrders(entries[k])
         /\ last' = [op |-> "EntriesDump", pre |-> Store,
                     entries |-> entriesDump(Store, keys, orders)]
         /\ UNCHANGED <<entries, nextSeqNum, psList, mu, thread, shadow, twin>>

EntriesRestore(Lists) ==
  /\ Idle
  /\ \E list \in Lists :
       /\ \E st \in {entriesRestore(Store, list)} : StoreBecomes(st)
       /\ last' = [op |-> "EntriesRestore", pre |-> Store, entries |-> list]
       /\ UNCHANGED <<psList, mu, thread, shadow, twin>>

EntriesClear ==
  /\ Idle
  /\ StoreBecomes(entriesClear(Store))
  /\ last' = [op |-> "EntriesClear", pre |-> Store]
  /\ UNCHANGED <<psList, mu, thread, shadow, twin>>

(***************************************************************************)
(* Calls of the jar.                                                       *)
(***************************************************************************)
SetCookies(URLs, CookieLists, Times) ==
  /\ Idle
  /\ \E u \in URLs, cs \in CookieLists, now \in Times :
       \E r \in {setCookies(Store, psList, u, cs, now)} :
          /\ StoreBecomes(r.st)
          /\ last' = [op |-> "SetCookies", pre |-> Store, u |-> u, cookies |-> cs, now |-> now,
                      built |-> r.built]
          /\ UNCHANGED <<psList, mu, thread, shadow, twin>>

Cookies(URLs, Times) ==
  /\ Idle
  /\ \E u \in URLs, now \in Times :
       \E order \in RangeOrders(Submap(Store, URLKey(u, psList))) :
         \E r \in {cookies(Store, psList, u, now, order)} :
            /\ StoreBecomes(r.st)
            /\ last' = [op |-> "Cookies", pre |-> Store, u |-> u,
                        now |-> now, cookies |-> r.cookies]
            /\ UNCHANGED <<psList, mu, thread, shadow, twin>>

(***************************************************************************)
(* The storage engine under a single caller.                               *)
(***************************************************************************)
\* an Entry as NewEntry builds it and setCookies stamps it
MkEntry(key, domain, hostOnly, path, name, value, secure, persistent, expires, creation) ==
  [ZeroEntry EXCEPT !.Name = name, !.Value = value, !.Domain = domain, !.Path = path,
                    !.Key = key, !.ID = EntryID(domain, path, name),
                    !.Secure = secure, !.Persistent = persistent, !.HostOnly = hostOnly,
                    !.Expires = expires, !.Creation = creation, !.LastAccess = creation]

\* partition example.com: /a/b created at 3, /a created at 1, /a created at 2
e_ab == MkEntry(h_example_com, h_example_com, FALSE, p_a_b, n_x, "v1", FALSE, FALSE, endOfTime, 3)
e_a1 == MkEntry(h_example_com, h_example_com, FALSE, p_a, n_x, "v1", FALSE, TRUE, 2, 1)
e_a2 == MkEntry(h_example_com, h_example_com, FALSE, p_a, n_y, "v1", TRUE, TRUE, 3, 2)
\* the same path length and creation time as e_a1
e_a3 == MkEntry(h_example_com, h_www_example_com, TRUE, p_a, n_x, "v1", FALSE, FALSE, endOfTime, 1)
\* the identity of e_a1 again, everything else different
e_a1new == MkEntry(h_example_com, h_example_com, FALSE, p_a, n_x, "v2", TRUE, FALSE, endOfTime, 3)
\* partition foo.com
e_foo == MkEntry(h_foo_com, h_foo_com, TRUE, p_root, n_x, "v1", FALSE, TRUE, 2, 1)

StoreEntries == {e_ab, e_a1, e_a2, e_a3, e_a1new, e_foo}
StoreKeys == {h_example_com, h_foo_com}
StoreIDs == {e.ID : e \in {e_ab, e_a1, e_foo}}
\* requests: one that every record of example.com matches, and ones that
\* miss by scheme, by host and by path
StoreRequests ==
  {[https |-> TRUE, host |-> h_www_example_com, path |-> p_a_b],
   [https |-> FALSE, host |-> h_www_example_com, path |-> p_a_b],
   [https |-> TRUE, host |-> h_example_com, path |-> p_a_b],
   [https |-> TRUE, host |-> h_www_example_com, path |-> p_root]}
StoreTimes == {1, 3}
RestoreEntries == {e_a1, e_a1new, e_foo}

InitStore ==
  /\ entries = EmptyMap
  /\ nextSeqNum = 0
  /\ psList = "nil"
  /\ last = [op |-> "none"]
  /\ SingleCaller

NextStore ==
  \/ SaveEntry(StoreEntries)
  \/ RemoveEntry(StoreKeys, StoreIDs)
  \/ Entries(StoreRequests, StoreKeys, StoreTimes)
  \/ EntriesDump
  \/ EntriesRestore(SeqsUpTo(RestoreEntries, MaxRestore))
  \/ EntriesClear
  \/ Return

SpecStore == InitStore /\ [][NextStore]_vars

(***************************************************************************)
(* Properties of the storage engine.                                       *)
(***************************************************************************)
\* the partition `key` of the store the last call found, and of the store now
PrePartition(key) == Submap(last.pre, key)
PostPartition(key) == Submap(Store, key)

\* C1: when Entries (Query) returns, every persistent record of the queried
\* partition whose expiry is not after `now` has been deleted from the
\* partition and is not in the result, whether or not it matches the
\* request; every returned record is a record of the store; and no
\* non-persistent record of any partition has been removed.
C1_ExpirySweep ==
  last.op = "Entries" =>
    /\ \A id \in DOMAIN PrePartition(last.key) :
         LET e == PrePartition(last.key)[id].Entry
         IN (e.Persistent /\ e.Expires <= last.now) =>
              /\ id \notin DOMAIN PostPartition(last.key)
              /\ \A i \in 1..Len(last.entries) : last.entries[i].ID # id
    /\ \A i \in 1..Len(last.entries) :
         /\ last.entries[i].ID \in DOMAIN PostPartition(last.key)
         /\ PostPartition(last.key)[last.entries[i].ID].Entry = last.entries[i]
    /\ \A k \in DOMAIN last.pre.entries : \A id \in DOMAIN last.pre.entries[k] :
         ~last.pre.entries[k][id].Entry.Persistent => id \in DOMAIN PostPartition(k)

\* C1 witness: a Query has swept a record that expires exactly at `now` and
\* does not match the request, and has kept a session record
C1_Witness ==
  /\ last.op = "Entries"
  /\ \E id \in DOMAIN PrePartition(last.key) :
       LET e == PrePartition(last.key)[id].Entry
       IN /\ e.Persistent /\ e.Expires = last.now
          /\ ~ShouldSend(e, last.https, last.host, last.path)
          /\ id \notin DOMAIN PostPartition(last.key)
  /\ \E id \in DOMAIN PrePartition(last.key) :
       /\ ~PrePartition(last.key)[id].Entry.Persistent
       /\ id \in DOMAIN PostPartition(last.key)

\* C2: when SaveEntry returns: if the record's (key, identity) was present,
\* the stored record is the new record with the creation time and sequence
\* number of the record it replaced, the partition holds the same
\* identities as before and nextSeqNum is unchanged; otherwise the stored
\* record is the new record with sequence number the old nextSeqNum, and
\* nextSeqNum has grown by one.
C2_SaveUpsert ==
  last.op = "SaveEntry" =>
    LET e == last.entry
        pre == PrePartition(e.Key)
        post == PostPartition(e.Key)
    IN /\ e.ID \in DOMAIN post
       /\ IF e.ID \in DOMAIN pre
          THEN /\ post[e.ID].Entry = [e EXCEPT !.Creation = pre[e.ID].Entry.Creation]
               /\ post[e.ID].seqNum = pre[e.ID].seqNum
               /\ DOMAIN post = DOMAIN pre
               /\ nextSeqNum = last.pre.nextSeqNum
          ELSE /\ post[e.ID].Entry = e
               /\ post[e.ID].seqNum = last.pre.nextSeqNum
               /\ DOMAIN post = DOMAIN pre \cup {e.ID}
               /\ nextSeqNum = last.pre.nextSeqNum + 1

\* C2 witness: a SaveEntry has replaced a record that had another value,
\* expiry and creation time
C2_Witness ==
  /\ last.op = "SaveEntry"
  /\ last.entry.ID \in DOMAIN PrePartition(last.entry.Key)
  /\ LET old == PrePartition(last.entry.Key)[last.entry.ID].Entry
     IN /\ old.Creation # last.entry.Creation
        /\ old.Value # last.entry.Value
        /\ old.Expires # last.entry.Expires

\* the sort key of a stored record: Less orders by -len(Path), Creation, seqNum
SortKey(r) == <<0 - Len(r.Entry.Path), r.Entry.Creation, r.seqNum>>

\* lexicographic order on sort keys
KeyBefore(a, b) ==
  \/ a[1] < b[1]
  \/ a[1] = b[1] /\ a[2] < b[2]
  \/ a[1] = b[1] /\ a[2] = b[2] /\ a[3] < b[3]

\* all stored records, of every partition
AllRecords == UNION {{entries[k][id] : id \in DOMAIN entries[k]} : k \in DOMAIN entries}

\* C3: the list Entries returns is strictly ascending in (path length
\* descending, creation time, sequence number); no two records of the store
\* have the same sort key; the list is the same for every iteration order of
\* the partition's map; and records /a/b created at 3, /a created at 1 and
\* /a created at 2 come back in exactly that order.
C3_QueryOrder ==
  /\ \A a, b \in AllRecords : a # b => SortKey(a) # SortKey(b)
  /\ last.op = "Entries" =>
       LET r == last.entries
           rec(i) == PostPartition(last.key)[r[i].ID]
       IN /\ \A i, j \in 1..Len(r) : i < j => KeyBefore(SortKey(rec(i)), SortKey(rec(j)))
          /\ \A o \in RangeOrders(PrePartition(last.key)) :
               entriesQuery(last.pre, last.https, last.host, last.path,
                            last.key, last.now, o).entries = r
          /\ ( /\ Len(r) = 3
               /\ {<<r[i].Path, r[i].Creation>> : i \in 1..Len(r)}
                    = {<<p_a_b, 3>>, <<p_a, 1>>, <<p_a, 2>>} )
             => [i \in 1..Len(r) |-> <<r[i].Path, r[i].Creation>>]
                  = << <<p_a_b, 3>>, <<p_a, 1>>, <<p_a, 2>> >>

\* C3 witness: a Query has returned the three records /a/b created at 3, /a
\* created at 1 and /a created at 2, the first of them saved last
C3_Witness ==
  /\ last.op = "Entries"
  /\ Len(last.entries) = 3
  /\ {<<last.entries[i].Path, last.entries[i].Creation>> : i \in 1..3}
       = {<<p_a_b, 3>>, <<p_a, 1>>, <<p_a, 2>>}
  /\ \A i \in 2..3 : PostPartition(last.key)[last.entries[1].ID].seqNum
                         > PostPartition(last.key)[last.entries[i].ID].seqNum

(***************************************************************************)
(* The entry builder on its own: NewEntry applied to a cookie and a        *)
(* request context, as setCookies derives the context from the URL.        *)
(***************************************************************************)
\* a call of NewEntry for cookie c received from host, request path urlPath
BuildEntry(Cs, Hosts, UrlPaths, Times) ==
  /\ Idle
  /\ \E c \in Cs, host \in Hosts, urlPath \in UrlPaths, now \in Times :
       /\ last' = [op |-> "NewEntry", pre |-> Store, c |-> c, now |-> now,
                   host |-> host, urlPath |-> urlPath,
                   r |-> NewEntry(c, now, DefaultPath(urlPath), host,
                                  JarKey(host, psList), psList)]
       /\ UNCHANGED <<entries, nextSeqNum, psList, mu, thread, shadow, twin>>

BuildDomains ==
  {<<>>, h_example_com, d_dot_example_com, d_EXAMPLE_com, d_example_com_dot,
   d_dot, d_dotdot_com, d_nonascii, h_com, h_bar_com, h_ip_1_2_3_4}
BuildPaths == {p_empty, p_rel, p_root, p_a}
BuildMaxAges == {-1, 0, 100}
BuildExpires == {0, 10, 60}
BuildSameSites == {"", "SameSiteLaxMode", "SameSiteNoneMode"}
BuildHosts == {h_www_example_com, h_example_com, h_com, h_ip_1_2_3_4}
BuildUrlPaths == {p_empty, p_a_b}
BuildTimes == {10, 60}

BuildCookies ==
  {[Name |-> n_x, Value |-> "v1", Domain |-> d, Path |-> p, MaxAge |-> ma,
    Expires |-> ex, Secure |-> fl, HttpOnly |-> fl, SameSite |-> ss] :
     d \in BuildDomains, p \in BuildPaths, ma \in BuildMaxAges,
     ex \in BuildExpires, fl \in BOOLEAN, ss \in BuildSameSites}

InitBuild ==
  /\ entries = EmptyMap
  /\ nextSeqNum = 0
  /\ psList \in PSLists
  /\ last = [op |-> "none"]
  /\ SingleCaller

NextBuild ==
  \/ BuildEntry(BuildCookies, BuildHosts, BuildUrlPaths, BuildTimes)
  \/ Return

SpecBuild == InitBuild /\ [][NextBuild]_vars

\* C6 as stated: a cookie with MaxAge = -1 always builds with the delete
\* flag set, whatever its other attributes and whatever the request host.
C6_Original ==
  (last.op = "NewEntry" /\ last.c.MaxAge = -1) => last.r.remove

\* C6 amended: a cookie with MaxAge = -1 builds with the delete flag set
\* exactly when DomainAndType accepts its Domain attribute for the request
\* host, whatever its Path, Expires, flags and SameSite are; when the
\* Domain attribute is rejected NewEntry returns the error and no delete
\* flag.
C6_DeleteUnlessRejected ==
  (last.op = "NewEntry" /\ last.c.MaxAge = -1) =>
    LET dt == DomainAndType(last.host, last.c.Domain, psList)
    IN /\ last.r.err = dt.err
       /\ last.r.remove = (dt.err = "")

\* C6 witness: a cookie with MaxAge = -1, an Expires in the future and a
\* Domain attribute the host may set has built with the delete flag
C6_Witness ==
  /\ last.op = "NewEntry"
  /\ last.c.MaxAge = -1
  /\ last.c.Expires > last.now
  /\ last.c.Domain = d_dot_example_com
  /\ last.c.Secure
  /\ last.r.remove

(***************************************************************************)
(* The jar without a public suffix list, for the hosts of example.com.     *)
(***************************************************************************)
URL(scheme, host, path) == [Scheme |-> scheme, Host |-> host, Path |-> path]

Cookie(name, value, domain, path, maxAge, expires, secure) ==
  [Name |-> name, Value |-> value, Domain |-> domain, Path |-> path,
   MaxAge |-> maxAge, Expires |-> expires, Secure |-> secure,
   HttpOnly |-> FALSE, SameSite |-> ""]

u_www == URL("http", h_www_example_com, p_root)
u_sub == URL("https", h_sub_example_com, p_root)
u_ip == URL("http", h_ip_1_2_3_4, p_root)

\* name=x; Domain=example.com; Path=/; Max-Age=100
c_x100 == Cookie(n_x, "v1", h_example_com, p_root, 100, 0, FALSE)
\* name=x; Domain=.example.com; Path=/; Expires=10
c_xpast == Cookie(n_x, "v2", d_dot_example_com, p_root, 0, 10, FALSE)
\* name=x; Domain=example.com; Path=/; Max-Age=-1
c_xdel == Cookie(n_x, "", h_example_com, p_root, -1, 0, FALSE)
\* name=y; Secure (a host-only session cookie)
c_y == Cookie(n_y, "v1", <<>>, p_empty, 0, 0, TRUE)
\* name=z; Domain=bar.com: errIllegalDomain from the hosts of example.com,
\* errNoHostname from 1.2.3.4
c_illegal == Cookie(n_z, "v1", h_bar_com, p_root, 0, 0, FALSE)

JarURLs == {u_www, u_sub, u_ip}
JarCookies == {c_x100, c_xpast, c_xdel, c_y, c_illegal}
JarSetTimes == {10}
JarGetTimes == {60, 110, 210}

InitJar ==
  /\ entries = EmptyMap
  /\ nextSeqNum = 0
  /\ psList = "nil"
  /\ last = [op |-> "none"]
  /\ SingleCaller

NextJar ==
  \/ SetCookies(JarURLs, SeqsUpTo(JarCookies, MaxCookies), JarSetTimes)
  \/ Cookies(JarURLs, JarGetTimes)
  \/ Return

SpecJar == InitJar /\ [][NextJar]_vars

\* the identity and partition of cookie x of example.com
id_x == EntryID(h_example_com, p_root, n_x)

\* the names of the cookies a Cookies call returned
ReturnedNames == {last.cookies[i].Name : i \in 1..Len(last.cookies)}

\* C4: a SetCookies at time T from www.example.com whose last cookie is
\* name=x; Domain=example.com; Path=/; Max-Age=100 leaves the record with
\* domain example.com, hostOnly false, persistent true and expiry T+100; and
\* a Cookies call for https://sub.example.com/ that finds this record returns
\* x if and only if its `now` is strictly before the record's expiry.
C4_MaxAgeScenario ==
  /\ ( /\ last.op = "SetCookies"
       /\ last.u = u_www
       /\ last.cookies # <<>>
       /\ last.cookies[Len(last.cookies)] = c_x100 )
     => /\ id_x \in DOMAIN PostPartition(h_example_com)
        /\ LET e == PostPartition(h_example_com)[id_x].Entry
           IN /\ e.Domain = h_example_com
              /\ ~e.HostOnly
              /\ e.Persistent
              /\ e.Expires = last.now + 100
              /\ e.Name = n_x /\ e.Value = "v1"
  /\ ( /\ last.op = "Cookies"
       /\ last.u = u_sub
       /\ id_x \in DOMAIN PrePartition(h_example_com) )
     => LET e == PrePartition(h_example_com)[id_x].Entry
        IN /\ e.Expires = e.Creation + 100
           /\ (n_x \in ReturnedNames) = (last.now < e.Creation + 100)

\* C4 witness: x was stored at T = 10 and Cookies for https://sub.example.com/
\* at T+50 has returned it
C4_Witness ==
  /\ last.op = "Cookies"
  /\ last.u = u_sub
  /\ last.now = 60
  /\ id_x \in DOMAIN PrePartition(h_example_com)
  /\ PrePartition(h_example_com)[id_x].Entry.Creation = 10
  /\ PrePartition(h_example_com)[id_x].Entry.Expires = 110
  /\ n_x \in ReturnedNames

\* the cookies of list cs that NewEntry did not reject, given the results
\* built[i] of NewEntry for cs[i]
RECURSIVE Accepted(_, _)
Accepted(cs, built) ==
  IF cs = <<>> THEN <<>>
  ELSE IF Head(built).err # "" THEN Accepted(Tail(cs), Tail(built))
  ELSE <<Head(cs)>> \o Accepted(Tail(cs), Tail(built))

\* C7: when SetCookies returns for an http/https URL with a canonicalizable
\* host, NewEntry has been applied to every cookie of the list, and the
\* store is the store that the same call with the rejected cookies deleted
\* from the list produces from the same store; a list of rejected cookies
\* only leaves the store as it was.
C7_RejectedSkipped ==
  ( /\ last.op = "SetCookies"
    /\ last.u.Scheme \in {"http", "https"}
    /\ ~CanonicalHost(last.u.Host).err )
  => /\ Len(last.built) = Len(last.cookies)
     /\ Store = setCookies(last.pre, psList, last.u,
                           Accepted(last.cookies, last.built), last.now).st
     /\ (\A i \in 1..Len(last.built) : last.built[i].err # "") => Store = last.pre

\* C7 witness: a list whose first cookie was rejected and whose second was
\* saved
C7_Witness ==
  /\ last.op = "SetCookies"
  /\ Len(last.cookies) = 2
  /\ last.built[1].err = "errIllegalDomain"
  /\ last.built[2].err = "" /\ ~last.built[2].remove
  /\ last.built[2].e.ID \in DOMAIN PostPartition(last.built[2].e.Key)
  /\ last.built[2].e.ID \notin DOMAIN PrePartition(last.built[2].e.Key)

\* the records of store st as a set of <<key, identity, record>>
RecordsOf(st) ==
  UNION {{<<k, id, st.entries[k][id]>> : id \in DOMAIN st.entries[k]} : k \in DOMAIN st.entries}

\* C8: a SetCookies of one accepted cookie deletes if and only if the cookie
\* has MaxAge < 0, or MaxAge = 0 and a non-zero Expires not after now; it
\* then removes exactly the record of the cookie's identity from the
\* partition of the request host and leaves every other record and
\* nextSeqNum as they were.  A Cookies call returns only names of records
\* of the store and adds no record, so the removed cookie is not returned
\* again before a SetCookies stores it.
C8_RemoveByIdentity ==
  /\ ( /\ last.op = "SetCookies"
       /\ Len(last.built) = 1
       /\ last.built[1].err = "" )
     => LET c == last.cookies[1]
            r == last.built[1]
            key == URLKey(last.u, psList)
        IN /\ r.remove = ( \/ c.MaxAge < 0
                           \/ c.MaxAge = 0 /\ c.Expires # 0 /\ c.Expires <= last.now )
           /\ r.remove =>
                /\ r.e.ID = EntryID(r.e.Domain, r.e.Path, c.Name)
                /\ r.e.ID \notin DOMAIN PostPartition(key)
                /\ RecordsOf(Store) =
                     {x \in RecordsOf(last.pre) : ~(x[1] = key /\ x[2] = r.e.ID)}
                /\ nextSeqNum = last.pre.nextSeqNum
  /\ last.op = "Cookies" =>
       /\ {<<x[1], x[2]>> : x \in RecordsOf(Store)}
            \subseteq {<<x[1], x[2]>> : x \in RecordsOf(last.pre)}
       /\ \A i \in 1..Len(last.cookies) :
            \E id \in DOMAIN PostPartition(URLKey(last.u, psList)) :
              LET e == PostPartition(URLKey(last.u, psList))[id].Entry
              IN e.Name = last.cookies[i].Name /\ e.Value = last.cookies[i].Value

\* C8 witness: sub.example.com has sent name=x; Domain=.example.com with an
\* Expires equal to now; x, stored from another host of the partition, is
\* gone, and y of the same partition is still there
C8_Witness ==
  /\ last.op = "SetCookies"
  /\ last.u = u_sub
  /\ last.cookies = <<c_xpast>>
  /\ id_x \in DOMAIN PrePartition(h_example_com)
  /\ id_x \notin DOMAIN PostPartition(h_example_com)
  /\ PostPartition(h_example_com) # EmptyMap

(***************************************************************************)
(* The jar with a public suffix list.                                      *)
(***************************************************************************)
u_foo == URL("http", h_foo_com, p_root)
u_bar == URL("http", h_bar_com, p_root)
u_com == URL("http", h_com, p_root)
\* https://FOO.com:80 is foo.com again
u_FOO == URL("https", h_FOO_com_port, p_empty)

k_host == Cookie(n_x, "v0", <<>>, p_root, 0, 0, FALSE)
k_com == Cookie(n_x, "v1", h_com, p_root, 0, 0, FALSE)
k_foo == Cookie(n_y, "v2", h_foo_com, p_root, 0, 0, FALSE)

PslURLs == {u_foo, u_bar, u_com, u_ip, u_FOO}
PslCookies == {k_host, k_com, k_foo}
PslTimes == {10}

InitPsl ==
  /\ entries = EmptyMap
  /\ nextSeqNum = 0
  /\ psList \in PSLists \ {"nil"}
  /\ last = [op |-> "none"]
  /\ SingleCaller

NextPsl ==
  \/ SetCookies(PslURLs, SeqsUpTo(PslCookies, MaxCookies), PslTimes)
  \/ Cookies(PslURLs, PslTimes)
  \/ Return

SpecPsl == InitPsl /\ [][NextPsl]_vars

\* domain is itself a public suffix: the list's answer for it is non-empty
\* and domain is not a strict dot-extension of the answer
IsPublicSuffix(domain) ==
  /\ PublicSuffix(psList, domain) # <<>>
  /\ ~HasDotSuffix(domain, PublicSuffix(psList, domain))

\* the canonical host of the URL of the last call
LastHost == CanonicalHost(last.u.Host).host

\* no stored record with hostOnly = false has a public suffix as its domain
NoSuffixDomainCookie ==
  \A r \in AllRecords : ~r.Entry.HostOnly => ~IsPublicSuffix(r.Entry.Domain)

\* a Cookies call returns only cookies of records that domain-match the
\* host, a host-only record only for the host that is its domain
ReturnedDomainMatch ==
  last.op = "Cookies" =>
    \A i \in 1..Len(last.cookies) :
      \E id \in DOMAIN PostPartition(URLKey(last.u, psList)) :
        LET e == PostPartition(URLKey(last.u, psList))[id].Entry
        IN /\ e.Name = last.cookies[i].Name /\ e.Value = last.cookies[i].Value
           /\ DomainMatch(e, LastHost)
           /\ e.HostOnly => e.Domain = LastHost

\* what NewEntry answered for the Domain attributes naming a public suffix:
\* stored host-only under the host when the host is that suffix, else the
\* error IllegalDomain; Hosts are the request hosts this is said of
SuffixDomainRejected(Hosts) ==
  (last.op = "SetCookies" /\ last.built # <<>> /\ LastHost \in Hosts) =>
    \A i \in 1..Len(last.built) :
      LET c == last.cookies[i]
          r == last.built[i]
      IN (c.Domain # <<>> /\ IsPublicSuffix(c.Domain)) =>
           IF LastHost = c.Domain
           THEN r.err = "" /\ r.e.HostOnly /\ r.e.Domain = LastHost
           ELSE r.err = "errIllegalDomain"

\* the canonical hosts of the URLs the jar serves
PslHosts == {CanonicalHost(u.Host).host : u \in PslURLs}

CrossSiteCookies ==
  {[Name |-> n_z, Value |-> "from foo.com", Domain |-> d, Path |-> p, MaxAge |-> ma,
    Expires |-> 0, Secure |-> FALSE, HttpOnly |-> FALSE, SameSite |-> ""] :
     d \in BuildDomains \cup {h_foo_com, <<".","c","o","m">>, <<".","b","a","r",".","c","o","m">>},
     p \in BuildPaths, ma \in {0, 100}}

\* cookie c, set by SetCookies for http://foo.com/ now, comes back from
\* Cookies for http://bar.com/
SetByFooReturnedToBar(c) ==
  LET st == setCookies(Store, psList, u_foo, <<c>>, 10).st
  IN \E order \in RangeOrders(Submap(st, URLKey(u_bar, psList))) :
       \E i \in 1..Len(cookies(st, psList, u_bar, 10, order).cookies) :
         cookies(st, psList, u_bar, 10, order).cookies[i] = [Name |-> c.Name, Value |-> c.Value]

\* C10 as stated: with the list that always answers "", there is a cookie
\* that SetCookies for foo.com stores and Cookies for bar.com returns.
C10_Original ==
  psList = "empty" => \E c \in CrossSiteCookies : SetByFooReturnedToBar(c)

(***************************************************************************)
(* The storage engine under several threads.  A call is Lock, the steps of *)
(* its body, and the deferred Unlock; the steps of different threads       *)
(* interleave wherever mu lets them.                                       *)
(***************************************************************************)
\* the orders in which EntriesDump can visit the records of each partition
DumpOrders(st) ==
  {o \in [DOMAIN st.entries ->
            UNION {RangeOrders(st.entries[k]) : k \in DOMAIN st.entries}] :
     \A k \in DOMAIN st.entries : o[k] \in RangeOrders(st.entries[k])}

\* what call c, made alone on store st, can leave and return
Outcomes(st, c) ==
  CASE c.op = "SaveEntry" -> {[st |-> saveEntry(st, c.entry), result |-> <<>>]}
    [] c.op = "RemoveEntry" -> {[st |-> removeEntry(st, c.key, c.id), result |-> <<>>]}
    [] c.op = "Entries" ->
         {[st |-> q.st, result |-> q.entries] :
            q \in {entriesQuery(st, c.https, c.host, c.path, c.key, c.now, o) :
                     o \in RangeOrders(Submap(st, c.key))}}
    [] c.op = "EntriesDump" ->
         {[st |-> st, result |-> entriesDump(st, keys, orders)] :
            keys \in RangeOrders(st.entries), orders \in DumpOrders(st)}
    [] c.op = "EntriesRestore" -> {[st |-> entriesRestore(st, c.entries), result |-> <<>>]}
    [] c.op = "EntriesClear" -> {[st |-> entriesClear(st), result |-> <<>>]}

\* thread t goes on with the fields `fields` changed or added
Goto(t, fields) == thread' = [thread EXCEPT ![t] = fields @@ thread[t]]

\* the most sequence numbers call c can take
SeqNumsOf(c) ==
  CASE c.op = "SaveEntry" -> 1
    [] c.op = "EntriesRestore" -> Len(c.entries)
    [] OTHER -> 0

\* the sequence numbers the calls that wait for mu can take
RECURSIVE Waiting(_)
Waiting(T) ==
  IF T = {} THEN 0
  ELSE LET t == CHOOSE x \in T : TRUE
       IN (IF thread[t].pc = "Lock" THEN SeqNumsOf(thread[t].call) ELSE 0)
          + Waiting(T \ {t})

\* thread t calls a method of the store; a call that could push nextSeqNum
\* past the bound of the model is not made
Call(t, Calls) ==
  /\ thread[t].pc = "idle"
  /\ \E c \in Calls :
       /\ shadow.nextSeqNum + Waiting(Threads) + SeqNumsOf(c) <= MaxSeq
       /\ thread' = [thread EXCEPT ![t] = [pc |-> "Lock", call |-> c]]
  /\ UNCHANGED <<entries, nextSeqNum, psList, last, mu, shadow, twin>>

\* a Lock that does not wait
CanLock_Always == TRUE

\* s.mu.Lock() returns only when nobody holds mu
CanLock == mu = ""

\* s.mu.Lock(): the call takes its place in the order of the calls
Lock(t) ==
  /\ thread[t].pc = "Lock"
  /\ CanLock
  /\ mu' = t
  /\ \E o \in Outcomes(shadow, thread[t].call) :
       /\ shadow' = o.st
       /\ Goto(t, [pc |-> thread[t].call.op,
                   want |-> {x.result : x \in {y \in Outcomes(shadow, thread[t].call) :
                                                 y.st = o.st}}])
  /\ UNCHANGED <<entries, nextSeqNum, psList, last, twin>>

\* saveEntry: submap := s.entries[entry.Key], the new inMemoryEntry, and
\* the lookup of the old one
SaveLookup(t) ==
  /\ thread[t].pc = "SaveEntry"
  /\ LET entry == thread[t].call.entry
         submap == Submap(Store, entry.Key)
         found == entry.ID \in DOMAIN submap
     IN Goto(t, [pc |-> IF found THEN "store" ELSE "seqNum",
                 fresh |-> entry.Key \notin DOMAIN entries,
                 e |-> IF found
                       THEN [Entry |-> [entry EXCEPT !.Creation =
                                          submap[entry.ID].Entry.Creation],
                             seqNum |-> submap[entry.ID].seqNum]
                       ELSE [Entry |-> entry, seqNum |-> 0]])
  /\ UNCHANGED <<entries, nextSeqNum, psList, last, mu, shadow, twin>>

\* saveEntry: e.seqNum = s.nextSeqNum
SaveSeqNum(t) ==
  /\ thread[t].pc = "seqNum"
  /\ Goto(t, [pc |-> "incr", e |-> [thread[t].e EXCEPT !.seqNum = nextSeqNum]])
  /\ UNCHANGED <<entries, nextSeqNum, psList, last, mu, shadow, twin>>

\* saveEntry: s.nextSeqNum++
SaveIncr(t) ==
  /\ thread[t].pc = "incr"
  /\ nextSeqNum' = nextSeqNum + 1
  /\ Goto(t, [pc |-> "store"])
  /\ UNCHANGED <<entries, psList, last, mu, shadow, twin>>

\* saveEntry: submap[id] = e; s.entries[entry.Key] = submap, submap being
\* the partition's map, or the map made for a partition that was not there
SaveStore(t) ==
  /\ thread[t].pc = "store"
  /\ LET e == thread[t].e
         submap == IF thread[t].fresh THEN EmptyMap ELSE Submap(Store, e.Entry.Key)
     IN entries' = MapPut(entries, e.Entry.Key, MapPut(submap, e.Entry.ID, e))
  /\ Goto(t, [pc |-> "Unlock", result |-> <<>>])
  /\ UNCHANGED <<nextSeqNum, psList, last, mu, shadow, twin>>

\* the body of RemoveEntry
RemoveBody(t) ==
  /\ thread[t].pc = "RemoveEntry"
  /\ StoreBecomes(removeEntry(Store, thread[t].call.key, thread[t].call.id))
  /\ Goto(t, [pc |-> "Unlock", result |-> <<>>])
  /\ UNCHANGED <<psList, last, mu, shadow, twin>>

\* Entries: submap := s.entries[key], the early return when it is nil, and
\* the order in which the range loop is going to visit the map
EntriesLoad(t) ==
  /\ thread[t].pc = "Entries"
  /\ IF thread[t].call.key \notin DOMAIN entries
     THEN Goto(t, [pc |-> "Unlock", result |-> <<>>])
     ELSE \E order \in RangeOrders(entries[thread[t].call.key]) :
            Goto(t, [pc |-> IF order = <<>> THEN "sort" ELSE "range",
                     todo |-> order, selected |-> <<>>, modified |-> FALSE])
  /\ UNCHANGED <<entries, nextSeqNum, psList, last, mu, shadow, twin>>

\* Entries: one turn of the range loop, on the map as it is now
EntriesRange(t) ==
  /\ thread[t].pc = "range"
  /\ LET c == thread[t].call
         id == Head(thread[t].todo)
         submap == Submap(Store, c.key)
         acc == [submap |-> submap, selected |-> thread[t].selected,
                 modified |-> thread[t].modified]
         next == IF id \in DOMAIN submap
                 THEN EntriesLoop(acc, <<id>>, c.https, c.host, c.path, c.now)
                 ELSE acc
     IN /\ entries' = IF c.key \in DOMAIN entries
                      THEN MapPut(entries, c.key, next.submap) ELSE entries
        /\ Goto(t, [pc |-> IF Tail(thread[t].todo) = <<>> THEN "sort" ELSE "range",
                    todo |-> Tail(thread[t].todo),
                    selected |-> next.selected, modified |-> next.modified])
  /\ UNCHANGED <<nextSeqNum, psList, last, mu, shadow, twin>>

\* Entries: the partition is dropped when the loop emptied it, selected is
\* sorted and returned
EntriesSort(t) ==
  /\ thread[t].pc = "sort"
  /\ LET key == thread[t].call.key
         sorted == SortSlice(thread[t].selected)
     IN /\ entries' = IF thread[t].modified /\ key \in DOMAIN entries
                         /\ Cardinality(DOMAIN entries[key]) = 0
                      THEN MapDelete(entries, key) ELSE entries
        /\ Goto(t, [pc |-> "Unlock",
                    result |-> [i \in 1..Len(sorted) |-> sorted[i].Entry]])
  /\ UNCHANGED <<nextSeqNum, psList, last, mu, shadow, twin>>

\* the body of EntriesDump
DumpBody(t) ==
  /\ thread[t].pc = "EntriesDump"
  /\ \E keys \in RangeOrders(entries), orders \in DumpOrders(Store) :
       Goto(t, [pc |-> "Unlock", result |-> entriesDump(Store, keys, orders)])
  /\ UNCHANGED <<entries, nextSeqNum, psList, last, mu, shadow, twin>>

\* an EntriesRestore that saves through the locking SaveEntry: it waits
\* for mu while it holds it
RestoreLoop_Relock(t) ==
  /\ thread[t].pc = "EntriesRestore"
  /\ Goto(t, [pc |-> "Lock"])
  /\ UNCHANGED <<entries, nextSeqNum, psList, last, mu, shadow, twin>>

\* EntriesRestore: one turn of the loop, s.saveEntry(e), or its end
RestoreLoop(t) ==
  /\ thread[t].pc = "EntriesRestore"
  /\ LET rest == IF "rest" \in DOMAIN thread[t] THEN thread[t].rest
                 ELSE thread[t].call.entries
     IN IF rest = <<>>
        THEN /\ Goto(t, [pc |-> "Unlock", result |-> <<>>])
             /\ UNCHANGED <<entries, nextSeqNum>>
        ELSE /\ entries' = saveEntry(Store, Head(rest)).entries
             /\ nextSeqNum' = saveEntry(Store, Head(rest)).nextSeqNum
             /\ Goto(t, [rest |-> Tail(rest)])
  /\ UNCHANGED <<psList, last, mu, shadow, twin>>

\* the body of EntriesClear
ClearBody(t) ==
  /\ thread[t].pc = "EntriesClear"
  /\ StoreBecomes(entriesClear(Store))
  /\ Goto(t, [pc |-> "Unlock", result |-> <<>>])
  /\ UNCHANGED <<psList, last, mu, shadow, twin>>

\* the deferred s.mu.Unlock(), and the return
Unlock(t) ==
  /\ thread[t].pc = "Unlock"
  /\ mu' = ""
  /\ thread' = [thread EXCEPT ![t] = NotCalling]
  /\ UNCHANGED <<entries, nextSeqNum, psList, last, shadow, twin>>

\* the calls the threads make
ConcCalls ==
  {[op |-> "SaveEntry", entry |-> e] : e \in {e_ab, e_a1, e_a2, e_a1new}}
  \cup {[op |-> "RemoveEntry", key |-> h_example_com, id |-> e_a1.ID]}
  \cup {[op |-> "Entries", https |-> TRUE, host |-> h_www_example_com, path |-> p_a_b,
         key |-> h_example_com, now |-> 3]}
  \cup {[op |-> "EntriesDump"], [op |-> "EntriesClear"]}
  \cup {[op |-> "EntriesRestore", entries |-> l] : l \in SeqsUpTo({e_foo}, MaxRestore)}

InitConc ==
  /\ entries = EmptyMap
  /\ nextSeqNum = 0
  /\ psList = "nil"
  /\ last = [op |-> "none"]
  /\ SingleCaller

NextConc ==
  \E t \in Threads :
    \/ Call(t, ConcCalls)
    \/ Lock(t)
    \/ SaveLookup(t)
    \/ SaveSeqNum(t)
    \/ SaveIncr(t)
    \/ SaveStore(t)
    \/ RemoveBody(t)
    \/ EntriesLoad(t)
    \/ EntriesRange(t)
    \/ EntriesSort(t)
    \/ DumpBody(t)
    \/ RestoreLoop(t)
    \/ ClearBody(t)
    \/ Unlock(t)

SpecConc == InitConc /\ [][NextConc]_vars

\* thread t is between its Lock and its Unlock
InCall(t) == thread[t].pc \notin {"idle", "Lock"}

\* C5: every call takes effect atomically.  A thread is between Lock and
\* Unlock only while it holds mu, so no step of another call falls between
\* the steps of a call (a Query's sweep, selection and touch included);
\* when a call reaches its Unlock it has left the store and returns the
\* result that the same call leaves and returns when the calls are made one
\* after the other in the order they took mu; and no two stored records
\* carry the same sequence number.
C5_CallsAtomic ==
  /\ \A t \in Threads : InCall(t) => mu = t
  /\ mu = "" => Store = shadow
  /\ \A t \in Threads :
       thread[t].pc = "Unlock" => Store = shadow /\ thread[t].result \in thread[t].want
  /\ \A r1, r2 \in AllRecords : r1 # r2 => r1.seqNum # r2.seqNum
  /\ \A r \in AllRecords : r.seqNum < nextSeqNum

\* C5 witness: one thread is inside the range loop of a Query, having
\* touched a record with more records to visit, while the other thread has
\* called Save for a new record of the same partition and waits for mu
C5_Witness ==
  \E t, o \in Threads :
    /\ thread[t].pc = "range"
    /\ thread[t].selected # <<>>
    /\ thread[o].pc = "Lock"
    /\ thread[o].call.op = "SaveEntry"
    /\ thread[o].call.entry.Key = thread[t].call.key
    /\ thread[o].call.entry.ID \notin DOMAIN entries[thread[t].call.key]

(***************************************************************************)
(* The jar for request hosts that are IP literals.                        *)
(***************************************************************************)
\* http://[::1]/ and http://[::1]:80/
u_ip6 == URL("http", h_ip6, p_root)
u_ip6_port == URL("http", h_ip6_port, p_root)

\* name=y; Domain=1.2.3.4 and name=y; Domain=[::1]
k_ip4 == Cookie(n_y, "v4", h_ip_1_2_3_4, p_root, 0, 0, FALSE)
k_ip6 == Cookie(n_y, "v6", h_ip6, p_root, 0, 0, FALSE)

\* the request URLs whose host is an IP literal
IpURLs == {u_ip, u_ip6, u_ip6_port}
IpCookies == {k_host, k_ip4, k_ip6, k_com}

InitIp ==
  /\ entries = EmptyMap
  /\ nextSeqNum = 0
  /\ psList \in PSLists
  /\ last = [op |-> "none"]
  /\ SingleCaller

NextIp ==
  \/ SetCookies(IpURLs, SeqsUpTo(IpCookies, MaxCookies), PslTimes)
  \/ Cookies(IpURLs, PslTimes)
  \/ Return

SpecIp == InitIp /\ [][NextIp]_vars

\* what SetCookies from a host in Hosts did with each cookie of its list: a
\* cookie without Domain attribute is accepted host-only for the host, under
\* the key that is the host; a cookie with a Domain attribute is rejected
\* with errNoHostname; a list of cookies with Domain attributes leaves the
\* store as it was, and an accepted last cookie is in the store
IpHostRule(Hosts) ==
  (last.op = "SetCookies" /\ last.cookies # <<>> /\ LastHost \in Hosts) =>
    /\ \A i \in 1..Len(last.built) :
         IF last.cookies[i].Domain = <<>>
         THEN /\ last.built[i].err = ""
              /\ last.built[i].e.HostOnly
              /\ last.built[i].e.Domain = LastHost
              /\ last.built[i].e.Key = LastHost
         ELSE last.built[i].err = "errNoHostname"
    /\ (\A i \in 1..Len(last.cookies) : last.cookies[i].Domain # <<>>) => Store = last.pre
    /\ LET n == Len(last.cookies)
       IN (last.cookies[n].Domain = <<>> /\ ~last.built[n].remove) =>
            /\ LastHost \in DOMAIN entries
            /\ last.built[n].e.ID \in DOMAIN entries[LastHost]
            /\ entries[LastHost][last.built[n].e.ID].Entry.HostOnly
            /\ entries[LastHost][last.built[n].e.ID].Entry.Domain = LastHost
            /\ entries[LastHost][last.built[n].e.ID].Entry.Value = last.cookies[n].Value

\* C11 as stated: for every request host that is an IP literal, a cookie
\* without Domain attribute is stored host-only under the literal and a
\* cookie with any Domain attribute is rejected with NoHostnameError,
\* leaving the store unchanged.
C11_Original == IpHostRule({CanonicalHost(u.Host).host : u \in IpURLs})

\* the rule for the request hosts that IsIP recognises: 1.2.3.4, and ::1
\* out of [::1]:80
IpRuleOfParsedHosts == IpHostRule({h \in {CanonicalHost(u.Host).host : u \in IpURLs} : IsIP(h)})

\* SetCookies for http://[::1]/ has stored y; Domain=[::1] as a domain cookie
BracketDomainCookieStored ==
  /\ last.op = "SetCookies"
  /\ last.u = u_ip6
  /\ last.cookies = <<k_ip6>>
  /\ \E r \in AllRecords : ~r.Entry.HostOnly /\ r.Entry.Domain = h_ip6 /\ r.Entry.Value = "v6"

(***************************************************************************)
(* Domain matching: the predicate on its own, and in the jar for the       *)
(* hosts example.com and sub.example.com.                                  *)
(***************************************************************************)
\* e.DomainMatch(host) is evaluated for a record and a host
DomainMatchCall(Domains, Hosts) ==
  /\ Idle
  /\ \E d \in Domains, ho \in BOOLEAN, host \in Hosts :
       last' = [op |-> "DomainMatch", pre |-> Store, domain |-> d, hostOnly |-> ho,
                host |-> host,
                r |-> DomainMatch([ZeroEntry EXCEPT !.Domain = d, !.HostOnly = ho], host)]
  /\ UNCHANGED <<entries, nextSeqNum, psList, mu, thread, shadow, twin>>

u_example == URL("http", h_example_com, p_root)

MatchDomains == {<<>>, h_com, h_example_com, h_xample_com, h_sub_example_com,
                 d_dot_example_com, h_ip_1_2_3_4}
MatchHosts == {h_com, h_example_com, h_sub_example_com, h_www_example_com,
               h_notexample_com, h_foo_com_dot, h_ip_1_2_3_4}
MatchURLs == {u_example, u_sub}
MatchCookies == {k_host, c_x100, c_y}

InitMatch ==
  /\ entries = EmptyMap
  /\ nextSeqNum = 0
  /\ psList = "nil"
  /\ last = [op |-> "none"]
  /\ SingleCaller

NextMatch ==
  \/ DomainMatchCall(MatchDomains, MatchHosts)
  \/ SetCookies(MatchURLs, SeqsUpTo(MatchCookies, MaxCookies), PslTimes)
  \/ Cookies(MatchURLs, PslTimes)
  \/ Return

SpecMatch == InitMatch /\ [][NextMatch]_vars

\* host equals domain, or the record is not host-only and host ends with
\* "." followed by domain
MatchesDomain(domain, hostOnly, host) ==
  \/ host = domain
  \/ ~hostOnly /\ HasSuffix(host, <<".">> \o domain)

\* the records a Cookies call found in its partition that are for the host
RecordsForHost ==
  {r \in {PrePartition(URLKey(last.u, psList))[id] :
            id \in DOMAIN PrePartition(URLKey(last.u, psList))} :
     /\ MatchesDomain(r.Entry.Domain, r.Entry.HostOnly, LastHost)
     /\ (last.u.Scheme = "https" \/ ~r.Entry.Secure)}

\* C12: DomainMatch(r, h) holds iff h = r.domain, or r is not host-only and
\* h ends with "." + r.domain; for a host-only record iff h = r.domain; and
\* a Cookies call returns exactly the records of its partition that match
\* its host in this sense (all paths here are "/", none is expired), so a
\* host-only cookie of example.com is not returned for sub.example.com.
C12_DomainMatch ==
  /\ last.op = "DomainMatch" =>
       /\ last.r <=> MatchesDomain(last.domain, last.hostOnly, last.host)
       /\ last.hostOnly => (last.r <=> last.host = last.domain)
  /\ last.op = "Cookies" =>
       /\ Len(last.cookies) = Cardinality(RecordsForHost)
       /\ \A i \in 1..Len(last.cookies) :
            \E r \in RecordsForHost :
              r.Entry.Name = last.cookies[i].Name /\ r.Entry.Value = last.cookies[i].Value
       /\ \A r \in RecordsForHost : r.Entry.HostOnly => r.Entry.Domain = LastHost

\* C12 witness: the jar holds the host-only cookie x of example.com and a
\* Cookies call for https://sub.example.com/ has returned without it
C12_Witness ==
  /\ last.op = "Cookies"
  /\ last.u = u_sub
  /\ \E id \in DOMAIN PrePartition(h_example_com) :
       LET e == PrePartition(h_example_com)[id].Entry
       IN e.HostOnly /\ e.Domain = h_example_com /\ e.Name = n_x
  /\ \A i \in 1..Len(last.cookies) : last.cookies[i].Name # n_x

(***************************************************************************)
(* The key deriver on its own.                                             *)
(***************************************************************************)
\* JarKey(host, psList) is evaluated for a canonical host
JarKeyCall(Hosts) ==
  /\ Idle
  /\ \E host \in Hosts :
       last' = [op |-> "JarKey", pre |-> Store, host |-> host, r |-> JarKey(host, psList)]
  /\ UNCHANGED <<entries, nextSeqNum, psList, mu, thread, shadow, twin>>

KeyLabels == {<<"f","o","o">>, <<"c","o">>, h_uk, h_com}
\* the hosts of one, two and three labels, bar.foo.co.uk and an IP literal
KeyHosts ==
  KeyLabels
  \cup {a \o <<".">> \o b : a \in KeyLabels, b \in KeyLabels}
  \cup {a \o <<".">> \o b \o <<".">> \o c : a \in KeyLabels, b \in KeyLabels, c \in KeyLabels}
  \cup {h_bar_foo_co_uk, h_ip_1_2_3_4}
KeyLists == PSLists \cup {"buggy"}

InitKey ==
  /\ entries = EmptyMap
  /\ nextSeqNum = 0
  /\ psList \in KeyLists
  /\ last = [op |-> "none"]
  /\ SingleCaller

NextKey ==
  \/ JarKeyCall(KeyHosts)
  \/ Return

SpecKey == InitKey /\ [][NextKey]_vars

\* key is the tail of host that starts at a label boundary and consists of
\* one label, a dot, and the last n characters of host
LabelAndTail(key, host, n) ==
  \E k \in 0..(Len(host) - n - 2) :
    /\ key = SliceFrom(host, k)
    /\ k = 0 \/ host[k] = "."
    /\ Count(SubSeq(host, k + 1, Len(host) - n - 1), ".") = 0
    /\ host[Len(host) - n] = "."

\* C13 as stated: with the lookup answering s for a non-IP host, the key is
\* host when s = host, host when s is not a dot-preceded proper tail of
\* host, and otherwise one label, a dot, and s.
C13_Original ==
  (last.op = "JarKey" /\ psList # "nil" /\ ~IsIP(last.host)) =>
    LET s == PublicSuffix(psList, last.host)
    IN IF s = last.host THEN last.r = last.host
       ELSE IF ~HasDotSuffix(last.host, s) THEN last.r = last.host
       ELSE LabelAndTail(last.r, last.host, Len(s)) /\ HasSuffix(last.r, <<".">> \o s)

\* C13 amended: the key is host when s = host, host when s is not shorter
\* than host or the character of host just before its last len(s)
\* characters is not a dot, and otherwise one label, a dot, and the last
\* len(s) characters of host (which are s when s is a tail of host).  With
\* co.uk as the suffix, foo.co.uk and bar.foo.co.uk both have the key
\* foo.co.uk.
C13_JarKey ==
  (last.op = "JarKey" /\ psList # "nil" /\ ~IsIP(last.host)) =>
    LET s == PublicSuffix(psList, last.host)
        n == Len(last.host) - Len(s)
    IN /\ IF s = last.host THEN last.r = last.host
          ELSE IF n <= 0 \/ last.host[n] # "." THEN last.r = last.host
          ELSE LabelAndTail(last.r, last.host, Len(s))
       /\ (psList = "table" /\ last.host \in {h_foo_co_uk, h_bar_foo_co_uk}) =>
            last.r = h_foo_co_uk

\* C13 witness: the key of bar.foo.co.uk under the list that knows co.uk
C13_Witness ==
  /\ last.op = "JarKey"
  /\ psList = "table"
  /\ last.host = h_bar_foo_co_uk
  /\ last.r = h_foo_co_uk

(***************************************************************************)
(* Progress of the calls under a fair scheduler.                           *)
(***************************************************************************)
\* a step of thread t inside a call: its Lock, its body, its Unlock
Step(t) ==
  \/ Lock(t)
  \/ SaveLookup(t) \/ SaveSeqNum(t) \/ SaveIncr(t) \/ SaveStore(t)
  \/ RemoveBody(t)
  \/ EntriesLoad(t) \/ EntriesRange(t) \/ EntriesSort(t)
  \/ DumpBody(t)
  \/ RestoreLoop(t)
  \/ ClearBody(t)
  \/ Unlock(t)

LiveCalls ==
  {[op |-> "SaveEntry", entry |-> e] : e \in {e_a1, e_ab}}
  \cup {[op |-> "RemoveEntry", key |-> h_example_com, id |-> e_a1.ID]}
  \cup {[op |-> "Entries", https |-> TRUE, host |-> h_www_example_com, path |-> p_a_b,
         key |-> h_example_com, now |-> 3]}
  \cup {[op |-> "EntriesDump"], [op |-> "EntriesClear"]}
  \cup {[op |-> "EntriesRestore", entries |-> <<e_foo, e_a1>>]}

NextLive ==
  \E t \in Threads :
    \/ Call(t, LiveCalls)
    \/ Lock(t)
    \/ SaveLookup(t)
    \/ SaveSeqNum(t)
    \/ SaveIncr(t)
    \/ SaveStore(t)
    \/ RemoveBody(t)
    \/ EntriesLoad(t)
    \/ EntriesRange(t)
    \/ EntriesSort(t)
    \/ DumpBody(t)
    \/ RestoreLoop(t)
    \/ ClearBody(t)
    \/ Unlock(t)

\* the scheduler runs every thread that can take a step of its body or its
\* Unlock, and sync.Mutex hands mu to a thread that keeps waiting for it
\* (its starvation mode)
Fairness ==
  \A t \in Threads :
    /\ WF_vars(SaveLookup(t) \/ SaveSeqNum(t) \/ SaveIncr(t) \/ SaveStore(t)
               \/ RemoveBody(t) \/ EntriesLoad(t) \/ EntriesRange(t) \/ EntriesSort(t)
               \/ DumpBody(t) \/ RestoreLoop(t) \/ ClearBody(t) \/ Unlock(t))
    /\ SF_vars(Lock(t))

SpecLive == InitConc /\ [][NextLive]_vars /\ Fairness

\* C14: no deadlock and no self-deadlock: a thread that waits for mu does
\* not hold it, whenever a call is in progress some thread inside a call
\* can take a step, mu is held only by a thread between its Lock and its
\* Unlock, and every call that is made returns.
C14_CallsComplete ==
  /\ [](\A t \in Threads : thread[t].pc = "Lock" => mu # t)
  /\ []((\E t \in Threads : thread[t].pc # "idle") => \E t \in Threads : ENABLED Step(t))
  /\ [](\A t \in Threads : mu = t => InCall(t))
  /\ \A t \in Threads : (thread[t].pc # "idle") ~> (thread[t].pc = "idle")

\* C14 witness: a thread holds mu inside the loop of EntriesRestore, one
\* entry saved and one to go, while the other thread waits for mu
C14_Witness ==
  \E t, o \in Threads :
    /\ thread[t].pc = "EntriesRestore"
    /\ "rest" \in DOMAIN thread[t]
    /\ Len(thread[t].rest) = 1
    /\ mu = t
    /\ thread[o].pc = "Lock"

(***************************************************************************)
(* The builder's choice of the stored path.                                *)
(***************************************************************************)
PathUrlPaths == {p_empty, p_rel, p_root, p_a, p_a_b, p_a_slash, p_ab}
PathCookies ==
  {Cookie(n_x, "v1", <<>>, p, 0, 0, FALSE) : p \in {p_empty, p_rel, p_root, p_a, p_a_slash}}

NextPath ==
  \/ BuildEntry(PathCookies, {h_example_com}, PathUrlPaths, {10})
  \/ Return

SpecPath == InitBuild /\ [][NextPath]_vars

\* the request path is empty or does not start with "/"
Malformed(path) == path = <<>> \/ path[1] # "/"

\* the path the builder stored is the cookie's Path attribute, or dp when
\* the attribute is empty or does not start with "/"
StoredPathIs(dp) ==
  last.r.e.Path = IF Malformed(last.c.Path) THEN dp ELSE last.c.Path

\* C15 as stated: the default path is "/" for an empty or malformed request
\* path and when the last "/" is at index 0, otherwise the request path up
\* to and including its last "/"; it is the stored path when the cookie's
\* Path attribute is empty or does not start with "/".
C15_Original ==
  last.op = "NewEntry" =>
    LET i == LastIndex(last.urlPath, "/")
    IN IF Malformed(last.urlPath) \/ i = 0 THEN StoredPathIs(<<"/">>)
       ELSE StoredPathIs(SubSeq(last.urlPath, 1, i + 1))

\* C15 amended: the same, the default path being the request path up to
\* but not including its last "/".
C15_DefaultPath ==
  last.op = "NewEntry" =>
    LET i == LastIndex(last.urlPath, "/")
    IN IF Malformed(last.urlPath) \/ i = 0 THEN StoredPathIs(<<"/">>)
       ELSE StoredPathIs(SubSeq(last.urlPath, 1, i))

\* C15 witness: a cookie without Path attribute received for /a/b is stored
\* with path /a
C15_Witness ==
  /\ last.op = "NewEntry"
  /\ last.urlPath = p_a_b
  /\ last.c.Path = p_empty
  /\ last.r.e.Path = p_a

(***************************************************************************)
(* Partitions of the store.                                                *)
(***************************************************************************)
\* C16: no partition key of the store maps to an empty record map; a
\* RemoveEntry that deletes the last record of a partition drops the
\* partition, and so does an Entries whose sweep deletes all its records.
C16_NoEmptyPartition ==
  /\ \A k \in DOMAIN entries : entries[k] # EmptyMap
  /\ (last.op = "RemoveEntry" /\ DOMAIN PrePartition(last.key) = {last.id}) =>
       last.key \notin DOMAIN entries
  /\ (/\ last.op = "Entries"
      /\ \A id \in DOMAIN PrePartition(last.key) :
           Expired(PrePartition(last.key)[id].Entry, last.now)) =>
       last.key \notin DOMAIN entries

\* C16 witness: an Entries call found a partition with records, swept all
\* of them, and the partition is gone
C16_Witness ==
  /\ last.op = "Entries"
  /\ last.key \in DOMAIN last.pre.entries
  /\ last.key \notin DOMAIN entries

(***************************************************************************)
(* What a query changes.                                                   *)
(***************************************************************************)
\* the identities of the records an Entries call returned
ReturnedIDs == {last.entries[i].ID : i \in 1..Len(last.entries)}

\* C17: Entries changes nothing but the partition it queries: there the
\* expired persistent records are gone, every other record is still there,
\* with LastAccess = now and no other change when it was returned and with
\* no change at all when it was not; no record is added; every other
\* partition, expired records included, and nextSeqNum are as before.
C17_QueryFrame ==
  last.op = "Entries" =>
    /\ nextSeqNum = last.pre.nextSeqNum
    /\ \A k \in (DOMAIN entries \cup DOMAIN last.pre.entries) \ {last.key} :
         /\ k \in DOMAIN entries /\ k \in DOMAIN last.pre.entries
         /\ entries[k] = last.pre.entries[k]
    /\ DOMAIN PostPartition(last.key) =
         {id \in DOMAIN PrePartition(last.key) :
            ~Expired(PrePartition(last.key)[id].Entry, last.now)}
    /\ ReturnedIDs \subseteq DOMAIN PostPartition(last.key)
    /\ \A id \in DOMAIN PostPartition(last.key) :
         PostPartition(last.key)[id] =
           IF id \in ReturnedIDs
           THEN [PrePartition(last.key)[id] EXCEPT !.Entry.LastAccess = last.now]
           ELSE PrePartition(last.key)[id]
    /\ \A i \in 1..Len(last.entries) :
         last.entries[i] = PostPartition(last.key)[last.entries[i].ID].Entry

\* C17 witness: an Entries call returned a record whose LastAccess was not
\* now, left alone an unexpired record it did not return, and another
\* partition holds an expired record
C17_Witness ==
  /\ last.op = "Entries"
  /\ \E id \in ReturnedIDs : PrePartition(last.key)[id].Entry.LastAccess # last.now
  /\ \E id \in DOMAIN PostPartition(last.key) : id \notin ReturnedIDs
  /\ \E k \in DOMAIN entries \ {last.key} :
       \E id \in DOMAIN entries[k] : Expired(entries[k][id].Entry, last.now)

(***************************************************************************)
(* Two runs of the jar that differ only in the calls made for the hosts of *)
(* one partition: the first run is the store, the second is twin.          *)
(***************************************************************************)
\* the same SetCookies call is made in both runs
BothSetCookies(URLs, CookieLists, Times) ==
  /\ Idle
  /\ \E u \in URLs, cs \in CookieLists, now \in Times :
       \E r \in {setCookies(Store, psList, u, cs, now)},
          rt \in {setCookies(twin, psList, u, cs, now)} :
          /\ StoreBecomes(r.st)
          /\ rt.st.nextSeqNum <= MaxSeq
          /\ twin' = rt.st
          /\ last' = [op |-> "BothSetCookies", pre |-> Store, u |-> u, cookies |-> cs,
                      now |-> now]
  /\ UNCHANGED <<psList, mu, thread, shadow>>

\* the same Cookies call is made in both runs
BothCookies(URLs, Times) ==
  /\ Idle
  /\ \E u \in URLs, now \in Times :
       \E order \in RangeOrders(Submap(Store, URLKey(u, psList))),
          ordert \in RangeOrders(Submap(twin, URLKey(u, psList))) :
         \E r \in {cookies(Store, psList, u, now, order)},
            rt \in {cookies(twin, psList, u, now, ordert)} :
            /\ StoreBecomes(r.st)
            /\ twin' = rt.st
            /\ last' = [op |-> "BothCookies", pre |-> Store, u |-> u, now |-> now,
                        cookies |-> r.cookies, twinCookies |-> rt.cookies]
  /\ UNCHANGED <<psList, mu, thread, shadow>>

\* a SetCookies call is made in the second run only
TwinSetCookies(URLs, CookieLists, Times) ==
  /\ Idle
  /\ \E u \in URLs, cs \in CookieLists, now \in Times :
       \E rt \in {setCookies(twin, psList, u, cs, now)} :
          /\ rt.st.nextSeqNum <= MaxSeq
          /\ twin' = rt.st
          /\ last' = [op |-> "TwinSetCookies", pre |-> Store, u |-> u, cookies |-> cs,
                      now |-> now]
  /\ UNCHANGED <<entries, nextSeqNum, psList, mu, thread, shadow>>

\* a Cookies call is made in the second run only
TwinCookies(URLs, Times) ==
  /\ Idle
  /\ \E u \in URLs, now \in Times :
       \E ordert \in RangeOrders(Submap(twin, URLKey(u, psList))) :
         \E rt \in {cookies(twin, psList, u, now, ordert)} :
            /\ twin' = rt.st
            /\ last' = [op |-> "TwinCookies", pre |-> Store, u |-> u, now |-> now,
                        cookies |-> rt.cookies]
  /\ UNCHANGED <<entries, nextSeqNum, psList, mu, thread, shadow>>

\* the hosts of partition foo.com, whose calls the runs do not share, and
\* the cookies they send (Domain=com is accepted from foo.com without a list)
OwnURLs == {u_foo}
OwnCookies == {k_com}
\* the hosts of partition example.com, whose calls both runs make
SharedURLs == {u_sub}
SharedCookies == {c_x100, c_y}
TwinGetTimes == {10, 110}

NextTwin ==
  \/ BothSetCookies(SharedURLs, SeqsUpTo(SharedCookies, MaxCookies), JarSetTimes)
  \/ BothCookies(SharedURLs, TwinGetTimes)
  \/ SetCookies(OwnURLs, SeqsUpTo(OwnCookies, MaxCookies), JarSetTimes)
  \/ Cookies(OwnURLs, TwinGetTimes)
  \/ TwinSetCookies(OwnURLs, SeqsUpTo(OwnCookies, MaxCookies), JarSetTimes)
  \/ TwinCookies(OwnURLs, TwinGetTimes)
  \/ Return

SpecTwin == InitJar /\ [][NextTwin]_vars

\* C18: in two runs that differ only in the SetCookies and Cookies calls
\* made for the hosts of partition foo.com, every Cookies call for a host of
\* partition example.com returns the same names and values in the same
\* order in both runs.
C18_PartitionConfined ==
  last.op = "BothCookies" => last.cookies = last.twinCookies

\* C18 witness: the runs have given different sequence numbers to the
\* records of example.com, and a Cookies call for a host of example.com has
\* returned two cookies
C18_Witness ==
  /\ last.op = "BothCookies"
  /\ Len(last.cookies) = 2
  /\ nextSeqNum # twin.nextSeqNum
  /\ \E id \in DOMAIN Submap(Store, h_example_com) :
       /\ id \in DOMAIN Submap(twin, h_example_com)
       /\ entries[h_example_com][id].seqNum # twin.entries[h_example_com][id].seqNum

(***************************************************************************)
(* Identities of records whose path or name contains the delimiter.        *)
(***************************************************************************)
\* name c with Path=/a;b, name b;c with Path=/a, and their deletions
i_c == Cookie(n_c, "v1", <<>>, p_a_semi_b, 0, 0, FALSE)
i_bc == Cookie(n_b_semi_c, "v2", <<>>, p_a, 0, 0, FALSE)
i_bc_del == Cookie(n_b_semi_c, "", <<>>, p_a, -1, 0, FALSE)
i_x == Cookie(n_x, "v3", <<>>, p_a, 0, 0, FALSE)

IdURLs == {u_example, u_sub}
IdCookies == {i_c, i_bc, i_bc_del, i_x}

NextId ==
  \/ SetCookies(IdURLs, SeqsUpTo(IdCookies, MaxCookies), PslTimes)
  \/ Cookies(IdURLs, PslTimes)
  \/ Return

SpecId == InitJar /\ [][NextId]_vars

\* the (domain, path, name) of an entry
Triple(e) == <<e.Domain, e.Path, e.Name>>

\* the records the store held when the last call was made
PreRecords ==
  UNION {{last.pre.entries[k][id] : id \in DOMAIN last.pre.entries[k]} :
           k \in DOMAIN last.pre.entries}

\* C19 as stated: records built by the validator with different (domain,
\* path, name) have different identities, so a SetCookies of one cookie
\* neither replaces nor deletes a stored record with another domain, path
\* or name.
C19_Original ==
  (last.op = "SetCookies" /\ Len(last.cookies) = 1 /\ last.built # <<>>) =>
    \A r \in PreRecords :
      (last.built[1].err = "" /\ Triple(r.Entry) # Triple(last.built[1].e)) =>
        /\ r.Entry.ID # last.built[1].e.ID
        /\ r \in AllRecords

\* SetCookies of name b;c with Path=/a has replaced the stored cookie c of
\* path /a;b
ReplacedOtherCookie ==
  /\ last.op = "SetCookies"
  /\ last.cookies = <<i_bc>>
  /\ \E r \in PreRecords : r.Entry.Name = n_c /\ r.Entry.Path = p_a_semi_b
                           /\ r.Entry.Domain = LastHost
  /\ \A r \in AllRecords : r.Entry.Name # n_c

(***************************************************************************)
(* Snapshot of the store: EntriesDump, EntriesClear, EntriesRestore.       *)
(***************************************************************************)
\* the stores that EntriesRestore(d) can leave after EntriesClear, d being
\* what EntriesDump returned for the store st
Restored(st) ==
  {entriesRestore(entriesClear(st), entriesDump(st, keys, orders)) :
     keys \in RangeOrders(st.entries), orders \in DumpOrders(st)}

\* store st2 holds the partitions and the records of store st
SameRecords(st, st2) ==
  /\ DOMAIN st2.entries = DOMAIN st.entries
  /\ \A k \in DOMAIN st.entries :
       /\ DOMAIN st2.entries[k] = DOMAIN st.entries[k]
       /\ \A id \in DOMAIN st.entries[k] : st2.entries[k][id].Entry = st.entries[k][id].Entry

\* every query of the inputs returns from st2 what it returns from st
SameQueries(st, st2) ==
  \A rq \in StoreRequests, key \in StoreKeys, now \in StoreTimes :
    \A o \in RangeOrders(Submap(st, key)), o2 \in RangeOrders(Submap(st2, key)) :
      entriesQuery(st2, rq.https, rq.host, rq.path, key, now, o2).entries
        = entriesQuery(st, rq.https, rq.host, rq.path, key, now, o).entries

\* the snapshot round trip keeps the partitions and the records
SnapshotKeepsRecords == \A st2 \in Restored(Store) : SameRecords(Store, st2)

\* C20 as stated: after d = EntriesDump(), EntriesClear(), EntriesRestore(d)
\* the store holds the same partitions and records, and every Query returns
\* the same records in the same order as before.
C20_Original ==
  \A st2 \in Restored(Store) : SameRecords(Store, st2) /\ SameQueries(Store, st2)

=============================================================================
